---- MODULE Spec2Model ----
(***************************************************************************)
(* Model of the YouTube live-chat polling engine of server.js: the manual  *)
(* switch, the self re-arming wake (pollTimeout), the poll cycle           *)
(* (pollLoop / pollLiveChat) with one step per await, the quota backoff,   *)
(* the live state (chat id, page token, last seen id) and the SSE fanout.  *)
(*                                                                         *)
(* Time is kept relative: timerLeft and backoffUntil hold the milliseconds *)
(* that remain until the armed wake, resp. the backoff deadline; Tick      *)
(* moves the clock to the nearest deadline.  Code between two awaits runs  *)
(* to completion on the Node event loop, so it is one action.              *)
(***************************************************************************)
EXTENDS Integers, Sequences, FiniteSets, TLC

\* ---------------------------------------------------------------- bounds
MaxCycles == 2        \* poll cycles that may be outstanding at once
MaxClients == 1       \* SSE subscribers connected at once
MaxQuotaRun == 2      \* quota errors handled without a success in between
MaxPage == 2          \* continuation tokens a chat hands out, where they are numbered
MaxProbes == 2        \* classifications of one item
MaxSinks == 3         \* subscribers in the check of the fanout

\* ------------------------------------------------------ program constants
MinDelayMs == 1200         \* scheduleNextPoll: Math.max(1200, ...)
SlowDelayMs == 15000       \* pollLoop: Math.max(15_000, ...)
BackoffBaseMs == 60000     \* pollLoop: Math.min(60_000, YT_BACKOFF_MAX_MS)

\* the set-ups the model is checked for: the environment variables
\* YT_POLL_MS, YT_BACKOFF_MAX_MS and YT_CHANNEL_TTL_MS, and whether the OAuth
\* provider hands out refresh tokens
Setups == {<<1000, 1000, 30000, "online access">>,
           <<59500, 150000, 30000, "offline access">>}
\* pollingIntervalMillis of a page response; 0 is "absent"
ApiIntervals == {0, 20000}

NoTime == -1               \* null for backoffUntil

Max(a, b) == IF a >= b THEN a ELSE b
Min(a, b) == IF a <= b THEN a ELSE b

VARIABLES
  monitor,               \* which of the history variables below is recorded
  scenario,              \* "offline access": credentials carry a refresh token
  YT_POLL_MS,            \* env YT_POLL_MS
  YT_BACKOFF_MAX_MS,     \* env YT_BACKOFF_MAX_MS
  YT_CHANNEL_TTL_MS,     \* env YT_CHANNEL_TTL_MS
  oauthConfigured,       \* YT_CLIENT_ID && YT_CLIENT_SECRET && YT_REDIRECT_URL
  ytEnabled,             \* manual switch
  sseClients,            \* connected subscribers
  lastSeenMessageId,     \* 0 is null
  activeLiveChatId,      \* 0 is null
  nextPageToken,         \* <<chat, n>>, NoToken is null
  activeBroadcast,       \* 0 is null
  lastStatus,            \* last event of kind 'status'
  authedChannel,         \* 0 is null
  authedChannelAt,       \* ms since the identity was resolved, NoTime is null
  pollTimeout,           \* "null", "pending" (armed) or "fired" (stale handle)
  timerLeft,             \* ms until the armed wake fires
  timers,                \* wakes pending in the event loop
  timerSession,          \* session captured by the armed wake's closure
  nextPollAt,            \* "null" or "set"
  lastPollMsEffective,   \* delay of the last armed wake, 0 is null
  backoffUntil,          \* ms until the backoff deadline, 0 elapsed, NoTime null
  backoffMs,
  cycles,                \* the outstanding executions of pollLoop
  emitted,               \* events broadcast by the last step, in order
  called,                \* remote call started by the last step, "none" if none
  lastResult,            \* how the last step ended a run of pollLoop, if it did
  quotaRun,              \* quota errors handled since the last successful cycle
  quotaRunReset,         \* same, also restarted by enable/disable/logout/callback
  tornDown,              \* a logout or disable was the last switch/session request
  chatEndedReset,        \* a chat-ended reset happened and no cycle started since
  fetched,               \* the page response the last step handled, if it did
  passed,                \* chat id and token of the page fetch the last step started
  prevFetch,             \* the token the last completed fetch returned and the token
                         \* stored before it, since the last reset
  ended,                 \* the cycle that in the last step left its identity phase:
                         \* the calls and outcomes of that phase in order, its
                         \* credential at its start and now
  identityFailed,        \* the last attempt to resolve the identity failed
  lastPollAt,            \* "null" or "set"
  reply,                 \* the body the last step answered a query with, if it did
  broken,                \* subscribers whose sink fails every write
  delivered,             \* the calls of broadcastEvent and the direct writes of the last step
  probe                  \* an item and the results of classifying it so far

\* quotaRun and quotaRunReset are recorded under "quota run", tornDown under
\* "torn down", chatEndedReset and the cycles' firstAfterReset under "chat
\* ended", fetched under "cursor" and "items", prevFetch under "cursor", passed
\* under "cursor" and "chat id", delivered under "fanout", the cycles' trace
\* and startTokens and ended under "calls", identityFailed under "identity",
\* reply and lastPollAt, which the program only reports, under "reply"; the
\* credential monitor records nothing and widens the refresh results; the
\* program's state does not depend on any of them
Monitors == {"none", "quota run", "torn down", "chat ended", "cursor", "chat id", "items", "fanout", "calls", "credential",
             "identity", "reply"}

config == <<monitor, scenario, YT_POLL_MS, YT_BACKOFF_MAX_MS, YT_CHANNEL_TTL_MS, oauthConfigured>>

vars == <<monitor, scenario, YT_POLL_MS, YT_BACKOFF_MAX_MS, YT_CHANNEL_TTL_MS, oauthConfigured,
          ytEnabled, sseClients,
          lastSeenMessageId, activeLiveChatId, nextPageToken, activeBroadcast,
          lastStatus, authedChannel, authedChannelAt, pollTimeout, timerLeft,
          timerSession, timers, nextPollAt, lastPollMsEffective, backoffUntil, backoffMs,
          cycles, emitted, called, lastResult, quotaRun,
          quotaRunReset, tornDown, chatEndedReset, fetched, passed, prevFetch,
          ended, identityFailed, lastPollAt, reply,
          broken, delivered, probe>>

\* ------------------------------------------------------------ data values
NoToken == <<0, 0>>
\* Chat ids and continuation tokens are opaque to the engine.  Where the
\* cursor is observed the token a page returns is the successor of the token
\* its request passed, and where the chat id is observed there are two chats;
\* elsewhere one chat and one token.
ChatIds == IF monitor = "chat id" THEN {1, 2} ELSE {1}
\* next-page tokens the API can return for a chat to a request that passed a token
PageTokens(chat, token) ==
  IF monitor # "cursor" THEN {<<chat, 1>>}
  ELSE IF token[2] < MaxPage THEN {<<chat, token[2] + 1>>}
  ELSE {}

NoTokens == [present |-> FALSE, access_token |-> 0, refresh_token |-> FALSE, expiry_date |-> 0]
\* credentials the authorization-code exchange can return
\* expiry instant of the credential of the authorization-code exchange
FirstExpiry == IF monitor = "credential" THEN 2 ELSE 1
NewTokens == {[present |-> TRUE, access_token |-> 1,
               refresh_token |-> (scenario = "offline access"),
               expiry_date |-> FirstExpiry]}
\* results of auth.refreshAccessToken(); 0 is an omitted field; the
\* credential monitor tells the returned token and expiry from the stored
\* ones: a new token without expiry, an expiry before the stored one
\* without token
RefreshResults ==
  IF monitor = "credential"
    THEN {[credentials |-> FALSE, access_token |-> 0, expiry_date |-> 0],
          [credentials |-> TRUE, access_token |-> 2, expiry_date |-> 0],
          [credentials |-> TRUE, access_token |-> 0, expiry_date |-> 1]}
  ELSE {[credentials |-> FALSE, access_token |-> 0, expiry_date |-> 0],
        [credentials |-> TRUE, access_token |-> 1, expiry_date |-> 0]}
\* results of channels.list: no channel, a channel with a title, one without
ChannelResults == {0, 1}
ChannelHasTitle(ch) == ch = 1
\* results of liveBroadcasts.list: items[0] as {id, snippet.liveChatId}
BroadcastResults == {[id |-> 0, liveChatId |-> 0]} \cup
                    {[id |-> chat, liveChatId |-> chat] : chat \in ChatIds}
\* A display text is a sequence of tokens: words, and Ws for a run of
\* whitespace.  The tokens are written case-folded except GIFTED, which
\* stands for a word in upper case (the patterns are matched with /i).
Ws == " "
Digits == {"5", "12"}
Lower(tok) == IF tok = "GIFTED" THEN "gifted" ELSE tok

\* String.prototype.trim
RECURSIVE TrimStart(_)
TrimStart(t) == IF t # << >> /\ Head(t) = Ws THEN TrimStart(Tail(t)) ELSE t
RECURSIVE TrimEnd(_)
TrimEnd(t) ==
  IF t # << >> /\ t[Len(t)] = Ws THEN TrimEnd(SubSeq(t, 1, Len(t) - 1)) ELSE t
Trim(t) == TrimEnd(TrimStart(t))

\* snippet.superChatDetails and snippet.newSponsorDetails of an item
NoSuperChat == [present |-> FALSE, amountDisplayString |-> "", tier |-> 0]
SuperChat(amount, tier) == [present |-> TRUE, amountDisplayString |-> amount, tier |-> tier]
NoSponsor == [present |-> FALSE, membershipLevelName |-> ""]
Sponsor(level) == [present |-> TRUE, membershipLevelName |-> level]

\* an item of a page of liveChatMessages.list
\* authorDetails.isChatOwner, isChatModerator and isChatSponsor of an item
Author(isChatOwner, isChatModerator, isChatSponsor) ==
  [isChatOwner |-> isChatOwner, isChatModerator |-> isChatModerator,
   isChatSponsor |-> isChatSponsor]
Viewer == Author(FALSE, FALSE, FALSE)
Authors == {Author(o, m, p) : o \in BOOLEAN, m \in BOOLEAN, p \in BOOLEAN}
Item(id, publishedAt, text, details, member) ==
  [id |-> id, publishedAt |-> publishedAt, displayMessage |-> text,
   superChatDetails |-> details, newSponsorDetails |-> member,
   authorDetails |-> Viewer]
By(item, author) == [item EXCEPT !.authorDetails = author]
PlainItem(id, text) == Item(id, id, text, NoSuperChat, NoSponsor)

\* display texts: empty, blank, plain, one per gift pattern, and near misses
Texts ==
  {<< >>, <<Ws>>, <<"hi">>, <<Ws, "hi", Ws>>,
   <<"gifted", Ws, "5", Ws, "memberships">>,
   <<Ws, "thanks", Ws, "GIFTED", Ws, "a", Ws, "membership", Ws>>,
   <<"gifted", "5">>,
   <<"gave", Ws, "12", Ws, "membership">>,
   <<"sent", Ws, "5", Ws, "membership", Ws, "gifts">>,
   <<"ja_membership", "ja_gift">>,
   <<"ja_membership", "ja_wo", "5", "ja_ken", "ja_gift">>,
   <<"12", "ja_ken", "ja_no", "ja_membership", "ja_wo", Ws, "ja_gift">>,
   <<"ja_membership", "ja_wo", "ja_gift", "ja_shimashita">>,
   <<"ja_membership", Ws, "5", "ja_ko", "ja_gift">>}
\* the items the classifier is probed with
ProbeItems ==
  {Item(1, 1, text, details, member) :
     text \in Texts,
     details \in {NoSuperChat, SuperChat("$5.00", 1)},
     member \in {NoSponsor, Sponsor("gold"), Sponsor("")}}

\* the items of the pages checked item by item: the id doubles as the item's
\* position in the page, publishedAt is the time it was posted
PageTexts == {<< >>, <<Ws>>, <<Ws, "hi", Ws>>, <<"gifted", Ws, "5", Ws, "memberships">>}
PageItems(id, publishedAt) ==
  {Item(id, publishedAt, text, dm[1], dm[2]) :
     text \in PageTexts,
     dm \in {<<NoSuperChat, NoSponsor>>, <<SuperChat("$5.00", 1), NoSponsor>>,
             <<NoSuperChat, Sponsor("gold")>>}}
\* pages of up to two items, listed newest first or oldest first
ItemPages ==
  {<< >>} \cup {<<By(x, author)>> : x \in PageItems(1, 1), author \in Authors}
  \cup {<<x, y>> : x \in PageItems(1, 2), y \in PageItems(2, 1)}
  \cup {<<x, y>> : x \in PageItems(1, 1), y \in PageItems(2, 2)}

\* the pages liveChatMessages.list answers with
Pages ==
  IF monitor = "items" THEN ItemPages ELSE {<< >>, <<PlainItem(1, <<"hi">>)>>}

\* An API error: its message as a sequence of phrases, written as the API
\* writes them, the reason of e.errors[0] and the reason of
\* e.response.data.error.errors[0] ("" when that path is missing), its
\* status code and the name of its type.
toLowerCase(str) ==
  CASE str = "Exceeded Your Quota" -> "exceeded your quota"
    [] str = "quotaExceeded" -> "quotaexceeded"
    [] str = "Live Chat Is No Longer Live" -> "live chat is no longer live"
    [] str = "liveChatNotFound" -> "livechatnotfound"
    [] str = "liveChatClosed" -> "livechatclosed"
    [] str = "backendError" -> "backenderror"
    [] OTHER -> str
\* String.prototype.includes on the lower-cased message
Includes(message, phrase) ==
  \E k \in 1..Len(message) : toLowerCase(message[k]) = phrase
\* e?.errors?.[0]?.reason || e?.response?.data?.error?.errors?.[0]?.reason || ''
ReasonOf(e) == toLowerCase(IF e.errors # "" THEN e.errors ELSE e.response)
ApiError(message, errors, response, code, name) ==
  [message |-> message, errors |-> errors, response |-> response,
   code |-> code, name |-> name]
ErrGeneric == ApiError(<<"request failed">>, "backendError", "", 500, "GaxiosError")
ErrQuota == ApiError(<<"request failed", "Exceeded Your Quota">>, "quotaExceeded", "",
                     403, "GaxiosError")
ErrChatEnded == ApiError(<<"Live Chat Is No Longer Live">>, "", "liveChatClosed",
                         403, "GaxiosError")
ErrBoth == ApiError(<<"live chat is no longer live">>, "quotaExceeded", "", 403, "Error")
\* the credential monitor follows the credential, not the kind of a failure;
\* the monitors of teardown and of the chat-ended reset leave the quota
\* backoff aside
Errors ==
  IF monitor = "credential" THEN {ErrGeneric}
  ELSE IF monitor \in {"torn down", "chat ended"} THEN {ErrGeneric, ErrChatEnded}
  ELSE {ErrGeneric, ErrQuota, ErrChatEnded, ErrBoth}

\* a classification by the status code of the error
isQuotaExceededErrorByStatus(e) == e.code = 403

isQuotaExceededError(e) ==
  \/ Includes(e.message, "exceeded your quota")
  \/ ReasonOf(e) = "quotaexceeded"
  \/ Includes(e.message, "quotaexceeded")

isChatNoLongerLiveError(e) ==
  \/ Includes(e.message, "live chat is no longer live")
  \/ ReasonOf(e) = "livechatnotfound"
  \/ ReasonOf(e) = "livechatclosed"

\* ------------------------------------------------------------------ events
Status(level, message, reason, n) ==
  [kind |-> "status", level |-> level, message |-> message, reason |-> reason, n |-> n]

\* a role that puts the supporter before the moderator and the owner
roleOfMemberFirst(author) ==
  IF author.isChatSponsor THEN "member"
  ELSE IF author.isChatModerator THEN "mod"
  ELSE IF author.isChatOwner THEN "owner"
  ELSE ""

\* isOwner ? 'owner' : (isMod ? 'mod' : (isMember ? 'member' : ''))
roleOf(author) ==
  IF author.isChatOwner THEN "owner"
  ELSE IF author.isChatModerator THEN "mod"
  ELSE IF author.isChatSponsor THEN "member"
  ELSE ""

ChatEvent(item) ==
  [kind |-> "chat", id |-> item.id, text |-> Trim(item.displayMessage),
   role |-> roleOf(item.authorDetails),
   isOwner |-> item.authorDetails.isChatOwner,
   isMod |-> item.authorDetails.isChatModerator,
   isMember |-> item.authorDetails.isChatSponsor,
   publishedAt |-> item.publishedAt]

\* the toasts of pollLiveChat; body holds the parts the code joins into it
ToastEvent(type, body, text) ==
  [kind |-> "toast", type |-> type, body |-> body, text |-> text]

\* One gift pattern: a sequence of elements, each a set of tokens that one
\* token must belong to; an optional element may match nothing.
One(toks) == [toks |-> toks, opt |-> FALSE]
Opt(toks) == [toks |-> toks, opt |-> TRUE]
GiftPatterns ==
  {<<One({"gift", "gifted"}), One({Ws}), One(Digits), One({Ws}),
     One({"membership", "memberships"})>>,
   <<One({"gift", "gifted"}), One({Ws}), One({"a"}), One({Ws}), One({"membership"})>>,
   <<One({"gave"}), One({Ws}), One(Digits), One({Ws}),
     One({"membership", "memberships"})>>,
   <<One({"sent"}), One({Ws}), One(Digits), One({Ws}), One({"membership"}),
     One({Ws}), One({"gift", "gifts"})>>,
   <<One({"ja_membership"}), Opt({Ws}), One({"ja_gift"})>>,
   <<One({"ja_membership"}), One({"ja_wo"}), Opt({Ws}), One(Digits), Opt({Ws}),
     One({"ja_ken"}), Opt({Ws}), One({"ja_gift"})>>,
   <<One(Digits), Opt({Ws}), One({"ja_ken"}), One({"ja_no"}), One({"ja_membership"}),
     Opt({"ja_wo"}), Opt({Ws}), One({"ja_gift"})>>,
   <<One({"ja_membership"}), One({"ja_wo"}), One({"ja_gift"}), One({"ja_shimashita"})>>,
   <<One({"ja_membership"}), Opt({Ws}), One(Digits), Opt({Ws}), One({"ja_ko"}),
     Opt({Ws}), One({"ja_gift"})>>}

\* re.test(msg) for an unanchored pattern: a match may start at any token
RECURSIVE MatchAt(_, _, _, _)
MatchAt(t, i, p, j) ==
  IF j > Len(p) THEN TRUE
  ELSE \/ /\ i <= Len(t)
          /\ Lower(t[i]) \in p[j].toks
          /\ MatchAt(t, i + 1, p, j + 1)
       \/ p[j].opt /\ MatchAt(t, i, p, j + 1)
Test(p, t) == \E i \in 1..(Len(t) + 1) : MatchAt(t, i, p, 1)

NoSpecial == [type |-> "none"]

classifySpecialEventMemberFirst(item) ==
  LET details == item.superChatDetails
      member == item.newSponsorDetails
      msg == Trim(item.displayMessage)
  IN IF member.present
       THEN [type |-> "membership", level |-> member.membershipLevelName]
     ELSE IF details.present
       THEN [type |-> "superchat", amount |-> details.amountDisplayString,
             tier |-> details.tier]
     ELSE IF msg # << >> /\ \E p \in GiftPatterns : Test(p, msg)
       THEN [type |-> "gift", message |-> msg]
     ELSE NoSpecial

classifySpecialEvent(item) ==
  LET details == item.superChatDetails
      member == item.newSponsorDetails
      msg == Trim(item.displayMessage)
  IN IF details.present
       THEN [type |-> "superchat", amount |-> details.amountDisplayString,
             tier |-> details.tier]
     ELSE IF member.present
       THEN [type |-> "membership", level |-> member.membershipLevelName]
     ELSE IF msg # << >> /\ \E p \in GiftPatterns : Test(p, msg)
       THEN [type |-> "gift", message |-> msg]
     ELSE NoSpecial

\* ------------------------------------------------------------------ cycles
IdleCycle == [pc |-> "idle", oauthTokens |-> NoTokens, liveChatId |-> 0,
              pageToken |-> NoToken, firstAfterReset |-> FALSE,
              trace |-> << >>, startTokens |-> NoTokens]
CycleIds == 1..MaxCycles
InFlight == DOMAIN cycles

\* The outstanding cycles are kept as a sequence in a fixed order: which of
\* two cycles comes first has no meaning in the program.
PcRank(pc) ==
  CASE pc = "idle" -> 0 [] pc = "channels" -> 1 [] pc = "refresh" -> 2
    [] pc = "retry" -> 3 [] pc = "broadcasts" -> 4 [] pc = "messages" -> 5
CycleKey(r) ==
  ((((((PcRank(r.pc) * 2 + (IF r.firstAfterReset THEN 1 ELSE 0)) * 2
      + (IF r.oauthTokens.refresh_token THEN 1 ELSE 0)) * 4
      + r.oauthTokens.access_token) * 4 + r.oauthTokens.expiry_date) * 4
      + r.liveChatId) * 4 + r.pageToken[2]) * 8 + Len(r.trace)
RECURSIVE Insert(_, _)
Insert(r, q) ==
  IF q = << >> THEN <<r>>
  ELSE IF CycleKey(r) <= CycleKey(Head(q)) THEN <<r>> \o q
  ELSE <<Head(q)>> \o Insert(r, Tail(q))
RECURSIVE Sorted(_)
Sorted(q) == IF q = << >> THEN << >> ELSE Insert(Head(q), Sorted(Tail(q)))
Outstanding(q) == Sorted(SelectSeq(q, LAMBDA r : r.pc # "idle"))

NoResult == [outcome |-> "none", apiMs |-> 0]
NoResponse == [items |-> << >>, nextPageToken |-> NoToken, pollingIntervalMillis |-> -1]
NoFetch == [started |-> FALSE, liveChatId |-> 0, pageToken |-> NoToken]
NoPrevFetch == [valid |-> FALSE, returned |-> NoToken, kept |-> NoToken]
NoReply == [query |-> "none", body |-> << >>]
NoEnded == [over |-> FALSE, trace |-> << >>, oauthTokens |-> NoTokens,
            startTokens |-> NoTokens]
NoProbe == [item |-> PlainItem(0, << >>), results |-> << >>]
Result(outcome, apiMs) == [outcome |-> outcome, apiMs |-> apiMs]

\* --------------------------------------------------- the state as a record
\* The handlers are written as functions from the state before to the state
\* after, so that the calls of one handler compose in the order of the code.
Cur ==
  [ytEnabled |-> ytEnabled, sseClients |-> sseClients,
   lastSeenMessageId |-> lastSeenMessageId, activeLiveChatId |-> activeLiveChatId,
   nextPageToken |-> nextPageToken, activeBroadcast |-> activeBroadcast,
   lastStatus |-> lastStatus, authedChannel |-> authedChannel,
   authedChannelAt |-> authedChannelAt, pollTimeout |-> pollTimeout, timers |-> timers,
   timerLeft |-> timerLeft, timerSession |-> timerSession, nextPollAt |-> nextPollAt,
   lastPollMsEffective |-> lastPollMsEffective, backoffUntil |-> backoffUntil,
   backoffMs |-> backoffMs, cycles |-> cycles,
   emitted |-> emitted, called |-> called,
   lastResult |-> lastResult, quotaRun |-> quotaRun, quotaRunReset |-> quotaRunReset,
   tornDown |-> tornDown, chatEndedReset |-> chatEndedReset,
   fetched |-> fetched, passed |-> passed, prevFetch |-> prevFetch,
   ended |-> ended, identityFailed |-> identityFailed,
   lastPollAt |-> lastPollAt, reply |-> reply, broken |-> broken, delivered |-> delivered, probe |-> probe]

\* the state at the start of a step: nothing broadcast or called yet
Begin ==
  [Cur EXCEPT !.emitted = << >>, !.called = "none", !.lastResult = NoResult,
              !.fetched = NoResponse, !.passed = NoFetch, !.ended = NoEnded,
              !.delivered = << >>, !.reply = NoReply]

Apply(s) ==
  /\ ytEnabled' = s.ytEnabled
  /\ sseClients' = s.sseClients
  /\ lastSeenMessageId' = s.lastSeenMessageId
  /\ activeLiveChatId' = s.activeLiveChatId
  /\ nextPageToken' = s.nextPageToken
  /\ activeBroadcast' = s.activeBroadcast
  /\ lastStatus' = s.lastStatus
  /\ authedChannel' = s.authedChannel
  /\ authedChannelAt' = s.authedChannelAt
  /\ pollTimeout' = s.pollTimeout
  /\ timerLeft' = s.timerLeft
  /\ timers' = s.timers
  /\ timerSession' = s.timerSession
  /\ nextPollAt' = s.nextPollAt
  /\ lastPollMsEffective' = s.lastPollMsEffective
  /\ backoffUntil' = s.backoffUntil
  /\ backoffMs' = s.backoffMs
  /\ cycles' = Outstanding(s.cycles)
  /\ emitted' = s.emitted
  /\ called' = s.called
  /\ lastResult' = s.lastResult
  /\ quotaRun' = IF monitor = "quota run" THEN s.quotaRun ELSE 0
  /\ quotaRunReset' = IF monitor = "quota run" THEN s.quotaRunReset ELSE 0
  /\ tornDown' = (monitor = "torn down" /\ s.tornDown)
  /\ chatEndedReset' = (monitor = "chat ended" /\ s.chatEndedReset)
  /\ fetched' = IF monitor \in {"cursor", "items"} THEN s.fetched ELSE NoResponse
  /\ passed' = IF monitor \in {"cursor", "chat id"} THEN s.passed ELSE NoFetch
  /\ prevFetch' = IF monitor = "cursor" THEN s.prevFetch ELSE NoPrevFetch
  /\ ended' = IF monitor = "calls" THEN s.ended ELSE NoEnded
  /\ identityFailed' = (monitor = "identity" /\ s.identityFailed)
  /\ lastPollAt' = IF monitor = "reply" THEN s.lastPollAt ELSE "null"
  /\ reply' = IF monitor = "reply" THEN s.reply ELSE NoReply
  /\ broken' = s.broken
  /\ delivered' = s.delivered
  /\ probe' = s.probe
  /\ UNCHANGED config

\* ------------------------------------------------- fanout and scheduling
\* res.write(payload): what one call of broadcastEvent or one direct write
\* did: the subscribers it went through, those that got the payload, and
\* whether it raised
Written(evt, subs, to, raised) ==
  [evt |-> evt, subs |-> subs, to |-> to, raised |-> raised]

\* a fanout without the try/catch: the loop ends at the first failing sink
\* (subscribers are gone through in the order of their ids)
broadcastEventUncaught(s, evt) ==
  LET bad == s.sseClients \cap s.broken
      first == IF bad = {} THEN 0 ELSE CHOOSE x \in bad : \A y \in bad : x <= y
      to == IF bad = {} THEN s.sseClients ELSE {x \in s.sseClients : x < first}
  IN [s EXCEPT !.lastStatus = IF evt.kind = "status" THEN evt ELSE @,
               !.emitted = Append(@, evt),
               !.delivered = Append(@, Written(evt, s.sseClients, to, bad # {}))]

\* a fanout that keeps every event as the last status
broadcastEventKeepsAny(s, evt) ==
  [s EXCEPT !.lastStatus = evt,
            !.emitted = Append(@, evt),
            !.delivered = IF monitor # "fanout" THEN @
                          ELSE Append(@, Written(evt, s.sseClients,
                                                 s.sseClients \ s.broken, FALSE))]

broadcastEvent(s, evt) ==
  [s EXCEPT !.lastStatus = IF evt.kind = "status" THEN evt ELSE @,
            !.emitted = Append(@, evt),
            !.delivered = IF monitor # "fanout" THEN @
                          ELSE Append(@, Written(evt, s.sseClients,
                                                 s.sseClients \ s.broken, FALSE))]

resetLiveState(s, reason) ==
  LET s1 == [s EXCEPT !.lastSeenMessageId = 0, !.nextPageToken = NoToken,
                      !.activeLiveChatId = 0, !.activeBroadcast = 0,
                      !.prevFetch = NoPrevFetch]
  IN IF reason # "" THEN broadcastEvent(s1, Status("warn", reason, "", 0)) ELSE s1

\* a delay taken as it is requested
DelayAsRequested(ms) == ms

\* Math.max(1200, Number(ms) || 1200)
Delay(ms) == Max(MinDelayMs, IF ms = 0 THEN MinDelayMs ELSE ms)

\* clearTimeout(handle): a pending wake is taken out of the event loop, a
\* fired one is not there any more
clearTimeout(s) == IF s.pollTimeout = "pending" THEN s.timers - 1 ELSE s.timers

\* arming that leaves the wake armed before in the event loop
scheduleNextPollKeepsOld(s, session, ms, reason) ==
  LET s1 == [s EXCEPT !.pollTimeout = "pending", !.timerLeft = Delay(ms),
                      !.timers = s.timers + 1,
                      !.timerSession = session, !.nextPollAt = "set",
                      !.lastPollMsEffective = Delay(ms)]
  IN IF reason # "" THEN broadcastEvent(s1, Status("info", "next poll", reason, Delay(ms)))
     ELSE s1

scheduleNextPoll(s, session, ms, reason) ==
  LET s1 == [s EXCEPT !.pollTimeout = "pending", !.timerLeft = Delay(ms),
                      !.timers = clearTimeout(s) + 1,
                      !.timerSession = session, !.nextPollAt = "set",
                      !.lastPollMsEffective = Delay(ms)]
  IN IF reason # "" THEN broadcastEvent(s1, Status("info", "next poll", reason, Delay(ms)))
     ELSE s1

\* stopPolling that forgets the armed wake
stopPollingKeepsTimer(s, reason) ==
  LET s1 == [s EXCEPT !.nextPollAt = "null"]
  IN IF reason # "" THEN broadcastEvent(s1, Status("warn", reason, "", 0)) ELSE s1

stopPolling(s, reason) ==
  LET s1 == [s EXCEPT !.pollTimeout = "null", !.timerLeft = 0,
                      !.timers = clearTimeout(s),
                      !.timerSession = NoTokens, !.nextPollAt = "null"]
  IN IF reason # "" THEN broadcastEvent(s1, Status("warn", reason, "", 0)) ELSE s1

ensurePolling(s, session) ==
  IF ~s.ytEnabled THEN s
  ELSE IF s.pollTimeout # "null" THEN s
  ELSE scheduleNextPoll(s, session, Max(MinDelayMs, YT_POLL_MS), "start")

\* ------------------------------------------------------------ poll cycle
\* what is kept of a cycle that leaves its identity phase
Ended(cycle) ==
  [over |-> TRUE, trace |-> cycle.trace, oauthTokens |-> cycle.oauthTokens,
   startTokens |-> cycle.startTokens]

\* an outcome of cycle c is added to its trace
note(s, c, what) ==
  IF monitor = "calls" THEN [s EXCEPT !.cycles[c].trace = Append(@, what)] ELSE s

\* the end of the try block taking the API's interval even below the base
pollSucceededApiOnly(s, c, apiMs) ==
  LET session == s.cycles[c].oauthTokens
      s1 == [s EXCEPT !.backoffUntil = NoTime, !.backoffMs = 0,
                      !.cycles[c] = IdleCycle,
                      !.lastResult = Result("success", apiMs),
                      !.quotaRun = 0, !.quotaRunReset = 0]
      baseMs == Max(MinDelayMs, YT_POLL_MS)
      nextMs == IF apiMs > 0 THEN apiMs ELSE baseMs
  IN scheduleNextPoll(s1, session, nextMs,
                      IF apiMs > 0 THEN "api interval" ELSE "env interval")

\* the end of pollLoop's try block: pollLiveChat returned
pollSucceeded(s, c, apiMs) ==
  LET session == s.cycles[c].oauthTokens
      s1 == [s EXCEPT !.backoffUntil = NoTime, !.backoffMs = 0,
                      !.cycles[c] = IdleCycle,
                      !.lastResult = Result("success", apiMs),
                      !.quotaRun = 0, !.quotaRunReset = 0]
      baseMs == Max(MinDelayMs, YT_POLL_MS)
      nextMs == IF apiMs > 0 THEN Max(baseMs, apiMs) ELSE baseMs
  IN scheduleNextPoll(s1, session, nextMs,
                      IF apiMs > 0 THEN "api interval" ELSE "env interval")

\* the doubling without its cap
\* the notice of a failed cycle: `poll error: ${e?.message || e}`
PollError(level, e) ==
  [kind |-> "status", level |-> level, message |-> "poll error", reason |-> "",
   n |-> 0, error |-> e.message]

\* a handling that looks for the quota keys first
handledAsQuotaFirst(e) ==
  IF isQuotaExceededError(e) THEN "quota"
  ELSE IF isChatNoLongerLiveError(e) THEN "chatEnded"
  ELSE "generic"

\* the branch of pollLoop's catch block: "if (chatClosed) {...} if (quota) {...}"
handledAs(e) ==
  IF isChatNoLongerLiveError(e) THEN "chatEnded"
  ELSE IF isQuotaExceededError(e) THEN "quota"
  ELSE "generic"

\* "const quota = isQuotaExceededError(e); const chatClosed = ..."
classifyError(e) ==
  [quota |-> isQuotaExceededError(e), chatClosed |-> isChatNoLongerLiveError(e)]

\* the errors the classification is probed with
ProbeMessages ==
  {<< >>, <<"request failed">>, <<"quota">>,
   <<"request failed", "Exceeded Your Quota">>, <<"exceeded your quota">>,
   <<"quotaExceeded", "request failed">>,
   <<"Live Chat Is No Longer Live">>,
   <<"live chat is no longer live", "exceeded your quota">>}
ProbeReasons ==
  {"", "quotaExceeded", "quotaexceeded", "liveChatNotFound", "liveChatClosed",
   "backendError"}
ProbeErrors ==
  {ApiError(message, errors, response, code, name) :
     message \in ProbeMessages, errors \in ProbeReasons,
     response \in {"", "quotaExceeded", "liveChatClosed"},
     code \in {403, 500}, name \in {"Error", "GaxiosError"}}

NextBackoffMsUncapped(ms) ==
  IF ms # 0 THEN ms * 2 ELSE Min(BackoffBaseMs, YT_BACKOFF_MAX_MS)

\* Exponential backoff up to max
NextBackoffMs(ms) ==
  IF ms # 0 THEN Min(ms * 2, YT_BACKOFF_MAX_MS) ELSE Min(BackoffBaseMs, YT_BACKOFF_MAX_MS)

\* a catch block that gives up on an unclassified error
pollFailedStopsOnError(s, c, e) ==
  LET session == s.cycles[c].oauthTokens
      quota == isQuotaExceededError(e)
      chatClosed == isChatNoLongerLiveError(e)
      s1 == broadcastEvent([s EXCEPT !.cycles[c] = IdleCycle],
                           PollError(IF quota \/ chatClosed THEN "error" ELSE "warn", e))
      slowMs == Max(SlowDelayMs, Max(MinDelayMs, YT_POLL_MS))
  IN IF chatClosed
       THEN scheduleNextPoll(
              resetLiveState([s1 EXCEPT !.lastResult = Result("chatEnded", 0),
                                        !.chatEndedReset = TRUE],
                             "chat ended, detecting again"),
              session, slowMs, "chat ended")
     ELSE IF quota
       THEN LET ms == NextBackoffMs(s1.backoffMs)
                s2 == [s1 EXCEPT !.backoffMs = ms, !.backoffUntil = ms,
                                 !.lastResult = Result("quota", 0),
                                 !.quotaRun = @ + 1, !.quotaRunReset = @ + 1]
            IN scheduleNextPoll(
                 broadcastEvent(s2, Status("warn", "paused for quota", "", ms)),
                 session, ms, "quota backoff")
     ELSE [s1 EXCEPT !.lastResult = Result("generic", 0)]

\* pollLoop's catch block: pollLiveChat threw e
\* a delay after a failure that does not follow the configured interval
RetryDelayMsFixed == SlowDelayMs

\* Math.max(15_000, Math.max(1200, YT_POLL_MS))
RetryDelayMs == Max(SlowDelayMs, Max(MinDelayMs, YT_POLL_MS))

pollFailed(s, c, e) ==
  LET session == s.cycles[c].oauthTokens
      quota == isQuotaExceededError(e)
      chatClosed == isChatNoLongerLiveError(e)
      s1 == broadcastEvent([s EXCEPT !.cycles[c] = IdleCycle],
                           PollError(IF quota \/ chatClosed THEN "error" ELSE "warn", e))
      slowMs == RetryDelayMs
  IN IF handledAs(e) = "chatEnded"
       THEN scheduleNextPoll(
              resetLiveState([s1 EXCEPT !.lastResult = Result("chatEnded", 0),
                                        !.chatEndedReset = TRUE],
                             "chat ended, detecting again"),
              session, slowMs, "chat ended")
     ELSE IF handledAs(e) = "quota"
       THEN LET ms == NextBackoffMs(s1.backoffMs)
                s2 == [s1 EXCEPT !.backoffMs = ms, !.backoffUntil = ms,
                                 !.lastResult = Result("quota", 0),
                                 !.quotaRun = @ + 1, !.quotaRunReset = @ + 1]
            IN scheduleNextPoll(
                 broadcastEvent(s2, Status("warn", "paused for quota", "", ms)),
                 session, ms, "quota backoff")
     ELSE scheduleNextPoll([s1 EXCEPT !.lastResult = Result("generic", 0)],
                           session, slowMs, "retry")

\* cycle c suspends on a remote call
await(s, c, pc, call) ==
  [note(s, c, call) EXCEPT !.cycles[c].pc = pc, !.called = call]

\* pollLiveChat from "broadcastEvent(... 'YouTubeコメントを取得中…')" to the page fetch
fetchPage(s, c) ==
  LET s1 == broadcastEvent(s, Status("info", "fetching comments", "", 0))
  IN await([s1 EXCEPT !.cycles[c].liveChatId = s.activeLiveChatId,
                      !.cycles[c].pageToken = s.nextPageToken,
                      !.passed = [started |-> TRUE, liveChatId |-> s.activeLiveChatId,
                                  pageToken |-> s.nextPageToken]],
           c, "messages", "liveChatMessages.list")

\* a cycle that resolves the live session whether or not the chat id is known
ensureChatIdAlwaysResolves(s, c) ==
  await([s EXCEPT !.ended = Ended(s.cycles[c]),
                  !.cycles[c].trace = << >>,
                  !.cycles[c].startTokens = NoTokens],
        c, "broadcasts", "liveBroadcasts.list")

\* pollLiveChat from "Ensure chat id": the identity phase of cycle c is over,
\* and the trace of the cycle starts again
ensureChatId(s, c) ==
  LET s1 == [s EXCEPT !.ended = Ended(s.cycles[c]),
                      !.cycles[c].trace = << >>,
                      !.cycles[c].startTokens = NoTokens]
  IN IF s.activeLiveChatId = 0
       THEN await([s1 EXCEPT !.cycles[c].firstAfterReset = FALSE],
                  c, "broadcasts", "liveBroadcasts.list")
     ELSE fetchPage(s1, c)

\* an identity that is taken as stale whatever its age
shouldRefreshChannelAlways(s) == TRUE

shouldRefreshChannel(s) ==
  s.authedChannelAt = NoTime \/ s.authedChannelAt > YT_CHANNEL_TTL_MS

\* pollLiveChat up to its first await
\* a cycle that goes on whatever it was given
canPollAlways(oauthTokens) == TRUE

\* "if (!oauthConfigured) return; if (!oauthTokens) return;"
canPoll(oauthTokens) == oauthConfigured /\ oauthTokens.present

pollLiveChat(s, c, oauthTokens) ==
  LET s0 == [s EXCEPT !.cycles = Append(@, [IdleCycle EXCEPT !.oauthTokens = oauthTokens]),
                      !.chatEndedReset = FALSE]
  IN IF ~canPoll(oauthTokens) THEN pollSucceeded(s0, c, 0)
     ELSE LET s1 == [s0 EXCEPT !.lastPollAt = "set",
                               !.cycles[c].firstAfterReset =
                                 (monitor = "chat ended" /\ s.chatEndedReset),
                               !.cycles[c].startTokens =
                                 IF monitor = "calls" THEN oauthTokens ELSE @]
          IN IF s1.authedChannel = 0 \/ shouldRefreshChannel(s1)
               THEN await(s1, c, "channels", "channels.list")
             ELSE ensureChatId(s1, c)

\* a wake callback without the backoff check
pollLoopIgnoresBackoff(s, c, session) ==
  IF ~s.ytEnabled
    THEN [stopPolling(s, "polling off") EXCEPT !.lastResult = Result("stopped", 0)]
  ELSE pollLiveChat(s, c, session)

\* the wake's callback, up to the first await
pollLoop(s, c, session) ==
  IF ~s.ytEnabled
    THEN [stopPolling(s, "polling off") EXCEPT !.lastResult = Result("stopped", 0)]
  ELSE IF s.backoffUntil # NoTime /\ s.backoffUntil > 0
    THEN [scheduleNextPoll(s, session, s.backoffUntil, "quota backoff")
            EXCEPT !.lastResult = Result("backoffWait", 0)]
  ELSE pollLiveChat(s, c, session)

\* "authedChannel = await getAuthedChannel(youtube); authedChannelAt = nowIso(); ..."
channelResolved(s, ch) ==
  LET s1 == [s EXCEPT !.authedChannel = ch, !.authedChannelAt = 0,
                      !.identityFailed = FALSE]
  IN IF ChannelHasTitle(ch)
       THEN broadcastEvent(s1, Status("info", "authorized channel", "", ch))
     ELSE s1

\* a write-back that stores what the provider returned, omitted or not
refreshedTokensOverwrites(t, r) ==
  [t EXCEPT !.access_token = r.access_token, !.expiry_date = r.expiry_date]

\* writes the refreshed access token and expiry into the credential in place
refreshedTokens(t, r) ==
  [t EXCEPT !.access_token = IF r.access_token # 0 THEN r.access_token ELSE @,
            !.expiry_date = IF r.expiry_date # 0 THEN r.expiry_date ELSE @]

\* items of a page, oldest first
RECURSIVE Reverse(_)
Reverse(q) == IF q = << >> THEN << >> ELSE Append(Reverse(Tail(q)), Head(q))

\* the events one item of the page gives rise to: its chat line when the
\* trimmed text is not empty, then the toast of its classification
itemEventsToastFirst(item) ==
  LET text == Trim(item.displayMessage)
      special == classifySpecialEvent(item)
  IN IF special.type = "superchat" THEN <<ToastEvent("superchat", special.amount, text)>>
     ELSE IF special.type = "membership" THEN <<ToastEvent("membership", special.level, << >>)>>
     ELSE IF special.type = "gift" THEN <<ToastEvent("gift", special.message, << >>)>>
     ELSE IF text # << >> THEN <<ChatEvent(item)>>
     ELSE << >>

itemEvents(item) ==
  LET text == Trim(item.displayMessage)
      special == classifySpecialEvent(item)
  IN (IF text # << >> THEN <<ChatEvent(item)>> ELSE << >>)
     \o (IF special.type = "superchat"
           THEN <<ToastEvent("superchat", special.amount, text)>>
         ELSE IF special.type = "membership"
           THEN <<ToastEvent("membership", special.level, << >>)>>
         ELSE IF special.type = "gift"
           THEN <<ToastEvent("gift", special.message, << >>)>>
         ELSE << >>)

RECURSIVE broadcastAll(_, _)
broadcastAll(s, evts) ==
  IF evts = << >> THEN s
  ELSE broadcastAll(broadcastEvent(s, Head(evts)), Tail(evts))

\* the loop over toProcess: broadcasts the events of the items in turn
RECURSIVE processItems(_, _)
processItems(s, items) ==
  IF items = << >> THEN s
  ELSE processItems(broadcastAll(s, itemEvents(Head(items))), Tail(items))

\* "nextPageToken = resp.data.nextPageToken || nextPageToken"
storedTokenFromResponse(resp, stored) == resp.nextPageToken

storedToken(resp, stored) ==
  IF resp.nextPageToken # NoToken THEN resp.nextPageToken ELSE stored

\* pollLiveChat after "const resp = await youtube.liveChatMessages.list(...)"
pageFetched(s, c, resp) ==
  LET items == resp.items
      s1 == [s EXCEPT !.nextPageToken = storedToken(resp, @)]
      s2 == processItems([s1 EXCEPT !.fetched = resp,
                                    !.prevFetch = [valid |-> TRUE,
                                                   returned |-> resp.nextPageToken,
                                                   kept |-> s.nextPageToken]],
                         Reverse(items))
      s3 == IF Len(items) > 0 THEN [s2 EXCEPT !.lastSeenMessageId = items[1].id] ELSE s2
      pollMsFromApi == resp.pollingIntervalMillis
      s4 == broadcastEvent(s3, Status("info", "fetch done", "", Len(items)))
  IN pollSucceeded(s4, c, pollMsFromApi)

\* ------------------------------------------------------------ HTTP handlers
ClientIds == 1..MaxClients

\* GET /api/events: the request's session comes from the browser's cookie; it
\* holds credentials or, for a browser that never authorized, none
ConnectedPing == Status("info", "connected", "", 0)

EventsConnect(res, session) ==
  /\ res \notin sseClients
  /\ Apply(ensurePolling([Begin EXCEPT
                            !.delivered = IF monitor # "fanout" THEN @
                                          ELSE <<Written(ConnectedPing, {res}, {res}, FALSE)>>,
                            !.sseClients = @ \cup {res},
                            !.tornDown = FALSE],
                         session))

\* req.on('close')
EventsClose(res) ==
  /\ res \in sseClients
  /\ Apply([Begin EXCEPT !.sseClients = @ \ {res}, !.broken = @ \ {res}])

\* GET /api/yt/state: reads the state, changes nothing
\* a snapshot that reports only an armed wake as polling
ytStateArmedOnly(s, session) ==
  [oauthConfigured |-> oauthConfigured,
   authed |-> session.present,
   hasRefreshToken |-> session.refresh_token,
   ytEnabled |-> s.ytEnabled,
   pollMs |-> Max(MinDelayMs, YT_POLL_MS),
   pollMsEffective |-> s.lastPollMsEffective,
   polling |-> (s.pollTimeout = "pending"),
   nextPollAt |-> s.nextPollAt,
   backoffUntil |-> s.backoffUntil,
   sseClients |-> Cardinality(s.sseClients),
   authedChannel |-> s.authedChannel,
   authedChannelAt |-> s.authedChannelAt,
   activeBroadcast |-> s.activeBroadcast,
   activeLiveChatId |-> s.activeLiveChatId,
   lastSeenMessageId |-> s.lastSeenMessageId,
   lastPollAt |-> s.lastPollAt,
   lastStatus |-> s.lastStatus]

\* the body of GET /api/yt/state for a request with that session
ytState(s, session) ==
  [oauthConfigured |-> oauthConfigured,
   authed |-> session.present,
   hasRefreshToken |-> session.refresh_token,
   ytEnabled |-> s.ytEnabled,
   pollMs |-> Max(MinDelayMs, YT_POLL_MS),
   pollMsEffective |-> s.lastPollMsEffective,
   polling |-> (s.pollTimeout # "null"),
   nextPollAt |-> s.nextPollAt,
   backoffUntil |-> s.backoffUntil,
   sseClients |-> Cardinality(s.sseClients),
   authedChannel |-> s.authedChannel,
   authedChannelAt |-> s.authedChannelAt,
   activeBroadcast |-> s.activeBroadcast,
   activeLiveChatId |-> s.activeLiveChatId,
   lastSeenMessageId |-> s.lastSeenMessageId,
   lastPollAt |-> s.lastPollAt,
   lastStatus |-> s.lastStatus]

stateQuery(s, session) ==
  [s EXCEPT !.reply = [query |-> "state", body |-> ytState(s, session)]]

StateQuery(session) == Apply(stateQuery(Begin, session))

\* GET /api/yt/enabled
enabledQuery(s) ==
  [s EXCEPT !.reply = [query |-> "enabled", body |-> [ytEnabled |-> s.ytEnabled]]]

EnabledQuery == Apply(enabledQuery(Begin))

\* the connection of a subscriber dies without its 'close' having run yet:
\* every later write to it fails
SinkBreaks(res) ==
  /\ res \in sseClients \ broken
  /\ Apply([Begin EXCEPT !.broken = @ \cup {res}])

\* broadcastEvent(evt) is called on its own, with an event of each kind
ProbeEvents ==
  {Status("info", "fetch done", "", 1),
   ChatEvent(PlainItem(1, <<"hi">>)),
   ToastEvent("gift", <<"gifted", Ws, "5", Ws, "memberships">>, << >>)}
Broadcast(evt) == Apply(broadcastEvent(Begin, evt))

\* classifySpecialEvent(item) is called on the probed item
Classify ==
  /\ Len(probe.results) < MaxProbes
  /\ Apply([Begin EXCEPT !.probe.results = Append(@, classifySpecialEvent(probe.item))])

\* GET /api/auth/callback, tokens being the result of auth.getToken(code)
AuthCallback(tokens) ==
  IF ~oauthConfigured THEN Apply(Begin)
  ELSE Apply(ensurePolling(
               [Begin EXCEPT
                  !.lastSeenMessageId = 0, !.activeLiveChatId = 0,
                  !.nextPageToken = NoToken, !.authedChannel = 0,
                  !.activeBroadcast = 0, !.authedChannelAt = NoTime,
                  !.backoffUntil = NoTime, !.backoffMs = 0,
                  !.quotaRunReset = 0, !.tornDown = FALSE,
                  !.prevFetch = NoPrevFetch],
               tokens))

\* GET /api/auth/logout ("req.session = null" clears the browser's cookie, not
\* the session object a wake or a cycle holds)
AuthLogout ==
  Apply(stopPolling(
          [Begin EXCEPT
             !.lastSeenMessageId = 0, !.activeLiveChatId = 0,
             !.nextPageToken = NoToken, !.authedChannel = 0,
             !.activeBroadcast = 0, !.authedChannelAt = NoTime,
             !.backoffUntil = NoTime, !.backoffMs = 0,
             !.quotaRunReset = 0, !.tornDown = TRUE,
             !.prevFetch = NoPrevFetch],
          "logged out, polling stopped"))

\* an enable that arms the wake, or cancels the one that is armed
setEnabledTogglesWake(s, enabled) ==
  LET s1 == [s EXCEPT
               !.ytEnabled = enabled, !.backoffUntil = NoTime, !.backoffMs = 0,
               !.quotaRunReset = 0, !.tornDown = ~enabled]
      s2 == resetLiveState(s1, "comment polling switched on, detecting again")
  IN IF ~enabled
       THEN stopPolling(resetLiveState(s1, "comment polling switched off"),
                        "polling off")
     ELSE IF s.pollTimeout = "pending" THEN stopPolling(s2, "")
     ELSE scheduleNextPoll(s2, NoTokens, YT_POLL_MS, "")

\* POST /api/yt/enabled
\* a switch that leaves the backoff as it is
setEnabledKeepsBackoff(s, enabled) ==
  LET s1 == [s EXCEPT !.ytEnabled = enabled, !.quotaRunReset = 0, !.tornDown = ~enabled]
  IN IF ~enabled
       THEN stopPolling(resetLiveState(s1, "comment polling switched off"),
                        "polling off")
     ELSE resetLiveState(s1, "comment polling switched on, detecting again")

setEnabled(s, enabled) ==
  LET s1 == [s EXCEPT
               !.ytEnabled = enabled, !.backoffUntil = NoTime, !.backoffMs = 0,
               !.quotaRunReset = 0, !.tornDown = ~enabled]
  IN IF ~enabled
       THEN stopPolling(resetLiveState(s1, "comment polling switched off"),
                        "polling off")
     ELSE resetLiveState(s1, "comment polling switched on, detecting again")

SetEnabled(enabled) == Apply(setEnabled(Begin, enabled))

\* ------------------------------------------------------- wake and responses
\* the armed wake fires: setTimeout(() => pollLoop(session), delay)
WakeFires ==
  /\ pollTimeout = "pending"
  /\ timerLeft = 0
  /\ Len(cycles) < MaxCycles
  /\ LET c == Len(cycles) + 1
         s == [Begin EXCEPT !.pollTimeout = "fired", !.timers = @ - 1,
                            !.timerSession = NoTokens]
     IN Apply(pollLoop(s, c, timerSession))

At(c, pc) == c \in DOMAIN cycles /\ cycles[c].pc = pc

\* channels.list answers the first identity call of the cycle
ChannelsOk(c, ch) ==
  /\ At(c, "channels")
  /\ Apply(ensureChatId(channelResolved(Begin, ch), c))

\* a catch block that refreshes whether or not there is a refresh token
channelsFailedAlwaysRefreshes(s, c) ==
  LET s1 == broadcastEvent([note(s, c, "channels.list failed")
                              EXCEPT !.identityFailed = TRUE],
                           Status("warn", "channels.list failed", "", 0))
  IN await(s1, c, "refresh", "refreshAccessToken")

\* the catch block of the first identity call, up to the refresh
channelsFailed(s, c) ==
  LET s1 == broadcastEvent([note(s, c, "channels.list failed")
                              EXCEPT !.identityFailed = TRUE],
                           Status("warn", "channels.list failed", "", 0))
  IN IF s.cycles[c].oauthTokens.refresh_token
       THEN await(s1, c, "refresh", "refreshAccessToken")
     ELSE ensureChatId(s1, c)

ChannelsFail(c) ==
  /\ At(c, "channels")
  /\ Apply(channelsFailed(Begin, c))

\* auth.refreshAccessToken() answers
refreshOk(s, c, r) ==
  IF r.credentials
    THEN LET s1 == [note(s, c, "refreshed")
                      EXCEPT !.cycles[c].oauthTokens = refreshedTokens(@, r)]
             s2 == broadcastEvent(s1, Status("info", "access token refreshed", "", 0))
         IN await(s2, c, "retry", "channels.list")
  ELSE ensureChatId(note(s, c, "refresh empty"), c)

RefreshOk(c, r) ==
  /\ At(c, "refresh")
  /\ Apply(refreshOk(Begin, c, r))

\* a catch block that goes on to the retry although the refresh failed
refreshFailedRetries(s, c) ==
  await(note(s, c, "refresh failed"), c, "retry", "channels.list")

\* the inner catch block, the refresh having thrown
refreshFailed(s, c) ==
  ensureChatId(broadcastEvent(note(s, c, "refresh failed"),
                              Status("warn", "token refresh failed", "", 0)), c)

RefreshFail(c) ==
  /\ At(c, "refresh")
  /\ Apply(refreshFailed(Begin, c))

\* channels.list answers the retry after the refresh
RetryOk(c, ch) ==
  /\ At(c, "retry")
  /\ Apply(ensureChatId(channelResolved(Begin, ch), c))

RetryFail(c) ==
  /\ At(c, "retry")
  /\ Apply(ensureChatId(broadcastEvent([note(Begin, c, "retry failed")
                                          EXCEPT !.identityFailed = TRUE],
                                       Status("warn", "token refresh failed", "", 0)), c))

\* where quota errors are counted, MaxQuotaRun of them are handled in a row
ErrorAllowed(e) ==
  monitor = "quota run" /\ isQuotaExceededError(e) /\ ~isChatNoLongerLiveError(e)
    => quotaRun < MaxQuotaRun

\* a cycle that throws when no broadcast is active
noActiveLiveThrows(s, c) == pollFailed(s, c, ErrGeneric)

\* "if (!activeLiveChatId) { broadcastEvent(... warn ...); return; }" and the
\* end of pollLoop's try block
noActiveLive(s, c) ==
  pollSucceeded(broadcastEvent(s, Status("warn", "no active live found", "", 0)), c, 0)

\* liveBroadcasts.list answers (getLiveChatId)
BroadcastsOk(c, b) ==
  /\ At(c, "broadcasts")
  /\ LET s1 == [Begin EXCEPT !.activeBroadcast = b.id,
                                              !.activeLiveChatId = b.liveChatId]
     IN IF b.liveChatId = 0
          THEN Apply(noActiveLive(s1, c))
        ELSE Apply(fetchPage(
                     broadcastEvent(s1, Status("info", "got live chat id", "", 0)), c))

BroadcastsFail(c, e) ==
  /\ At(c, "broadcasts")
  /\ ErrorAllowed(e)
  /\ Apply(pollFailed(Begin, c, e))

\* the pages liveChatMessages.list can answer with for a chat
Responses(chat, token) ==
  [items : Pages, nextPageToken : {NoToken} \cup PageTokens(chat, token),
   pollingIntervalMillis : ApiIntervals]

MessagesOk(c, resp) ==
  /\ At(c, "messages")
  /\ resp \in Responses(cycles[c].liveChatId, cycles[c].pageToken)
  /\ Apply(pageFetched(Begin, c, resp))

MessagesFail(c, e) ==
  /\ At(c, "messages")
  /\ ErrorAllowed(e)
  /\ Apply(pollFailed(Begin, c, e))

\* ------------------------------------------------------------------- time
Deadlines ==
  (IF pollTimeout = "pending" /\ timerLeft > 0 THEN {timerLeft} ELSE {})
  \cup (IF backoffUntil > 0 THEN {backoffUntil} ELSE {})

\* the clock moves to the nearest deadline of the wake and the backoff; a due
\* wake fires first.  The age of the cached identity is kept as 0 (within the
\* time-to-live) until TtlElapses.
Tick ==
  /\ ~(pollTimeout = "pending" /\ timerLeft = 0)
  /\ Deadlines # {}
  /\ LET d == CHOOSE x \in Deadlines : \A y \in Deadlines : x <= y
     IN Apply([Begin EXCEPT
                 !.timerLeft = IF pollTimeout = "pending" THEN Max(0, @ - d) ELSE @,
                 !.backoffUntil = IF @ = NoTime THEN NoTime ELSE Max(0, @ - d)])

\* more than YT_CHANNEL_TTL_MS passes since the identity was resolved: every
\* deadline is reached as well
TtlElapses ==
  /\ authedChannelAt # NoTime
  /\ authedChannelAt <= YT_CHANNEL_TTL_MS
  /\ Apply([Begin EXCEPT
              !.timerLeft = 0,
              !.backoffUntil = IF @ = NoTime THEN NoTime ELSE 0,
              !.authedChannelAt = YT_CHANNEL_TTL_MS + 1])

\* ------------------------------------------------------------ specification
Fresh ==
  /\ \E setup \in Setups : /\ YT_POLL_MS = setup[1]
                          /\ YT_BACKOFF_MAX_MS = setup[2]
                          /\ YT_CHANNEL_TTL_MS = setup[3]
                          /\ scenario = setup[4]
  /\ oauthConfigured \in BOOLEAN
  /\ ytEnabled \in BOOLEAN
  /\ sseClients = {}
  /\ lastSeenMessageId = 0
  /\ activeLiveChatId = 0
  /\ nextPageToken = NoToken
  /\ activeBroadcast = 0
  /\ lastStatus = Status("info", "idle", "", 0)
  /\ authedChannel = 0
  /\ authedChannelAt = NoTime
  /\ pollTimeout = "null"
  /\ timerLeft = 0
  /\ timers = 0
  /\ timerSession = NoTokens
  /\ nextPollAt = "null"
  /\ lastPollMsEffective = 0
  /\ backoffUntil = NoTime
  /\ backoffMs = 0
  /\ cycles = << >>
  /\ emitted = << >>
  /\ called = "none"
  /\ lastResult = NoResult
  /\ quotaRun = 0
  /\ quotaRunReset = 0
  /\ tornDown = FALSE
  /\ chatEndedReset = FALSE
  /\ fetched = NoResponse
  /\ passed = NoFetch
  /\ prevFetch = NoPrevFetch
  /\ ended = NoEnded
  /\ identityFailed = FALSE
  /\ lastPollAt = "null"
  /\ reply = NoReply
  /\ broken = {}
  /\ delivered = << >>

Start == Fresh /\ probe = NoProbe

\* every step but those of a credential refresh
Steps ==
  \/ \E res \in ClientIds, session \in {NoTokens} \cup NewTokens : EventsConnect(res, session)
  \/ \E res \in ClientIds : EventsClose(res)
  \/ \E tokens \in NewTokens : AuthCallback(tokens)
  \/ AuthLogout
  \/ \E enabled \in BOOLEAN : SetEnabled(enabled)
  \/ WakeFires
  \/ \E c \in CycleIds, ch \in ChannelResults : ChannelsOk(c, ch)
  \/ \E c \in CycleIds : ChannelsFail(c)
  \/ \E c \in CycleIds, b \in BroadcastResults : BroadcastsOk(c, b)
  \/ \E c \in CycleIds, e \in Errors : BroadcastsFail(c, e)
  \/ \E c \in DOMAIN cycles : \E resp \in Responses(cycles[c].liveChatId, cycles[c].pageToken) : MessagesOk(c, resp)
  \/ \E c \in CycleIds, e \in Errors : MessagesFail(c, e)
  \/ Tick
  \/ TtlElapses
  \/ \E session \in {NoTokens} \cup NewTokens : StateQuery(session)
  \/ EnabledQuery

\* the steps of a credential refresh, which needs a refresh token
Refreshes ==
  \/ \E c \in CycleIds, r \in RefreshResults : RefreshOk(c, r)
  \/ \E c \in CycleIds : RefreshFail(c)
  \/ \E c \in CycleIds, ch \in ChannelResults : RetryOk(c, ch)
  \/ \E c \in CycleIds : RetryFail(c)

Next == Steps \/ Refreshes

Init == Start /\ monitor = "none"
Spec == Init /\ [][Next]_vars

InitQuota == Start /\ monitor = "quota run"
SpecQuota == InitQuota /\ [][Next]_vars

InitTornDown == Start /\ monitor = "torn down"
SpecTornDown == InitTornDown /\ [][Next]_vars

InitChatEnded == Start /\ monitor = "chat ended"
SpecChatEnded == InitChatEnded /\ [][Next]_vars

\* The cursor observed: configured and enabled at the start, and signed in
\* without a refresh token, so that no credential is ever refreshed.
InitCursor ==
  /\ Start /\ monitor = "cursor"
  /\ oauthConfigured /\ ytEnabled /\ scenario = "online access"
NextCursor == Steps
SpecCursor == InitCursor /\ [][NextCursor]_vars

\* The calls of the cycles observed, with and without a refresh token.
InitCalls == Start /\ monitor = "calls" /\ oauthConfigured
SpecCalls == InitCalls /\ [][Next]_vars

\* The identity cache observed, signed in without a refresh token.
InitCredential ==
  /\ Start /\ monitor = "credential"
  /\ oauthConfigured /\ ytEnabled /\ scenario = "offline access"
\* the engine without subscribers: sign-in, switch, wakes and the answers
\* to the calls of a cycle
NextCredential ==
  \/ \E tokens \in NewTokens : AuthCallback(tokens)
  \/ AuthLogout
  \/ \E enabled \in BOOLEAN : SetEnabled(enabled)
  \/ WakeFires
  \/ \E c \in CycleIds, ch \in ChannelResults : ChannelsOk(c, ch)
  \/ \E c \in CycleIds : ChannelsFail(c)
  \/ \E c \in CycleIds, b \in BroadcastResults : BroadcastsOk(c, b)
  \/ \E c \in CycleIds, e \in Errors : BroadcastsFail(c, e)
  \/ \E c \in DOMAIN cycles : \E resp \in Responses(cycles[c].liveChatId, cycles[c].pageToken) : MessagesOk(c, resp)
  \/ \E c \in CycleIds, e \in Errors : MessagesFail(c, e)
  \/ Tick
  \/ TtlElapses
  \/ Refreshes
SpecCredential == InitCredential /\ [][NextCredential]_vars

InitReply ==
  /\ Start /\ monitor = "reply"
  /\ oauthConfigured /\ ytEnabled /\ scenario = "online access"
NextReply == Steps
SpecReply == InitReply /\ [][NextReply]_vars

InitIdentity ==
  /\ Start /\ monitor = "identity"
  /\ oauthConfigured /\ ytEnabled /\ scenario = "online access"
NextIdentity == Steps
SpecIdentity == InitIdentity /\ [][NextIdentity]_vars

\* The chat id observed in the same way, the API answering for two chats.
InitChatId ==
  /\ Start /\ monitor = "chat id"
  /\ oauthConfigured /\ ytEnabled /\ scenario = "online access"
NextChatId == Steps
SpecChatId == InitChatId /\ [][NextChatId]_vars

\* The item handling of pollLiveChat on its own: a cycle is waiting for its
\* page, and the page arrives.
InitItems ==
  /\ monitor = "items"
  /\ \E setup \in Setups : /\ YT_POLL_MS = setup[1]
                          /\ YT_BACKOFF_MAX_MS = setup[2]
                          /\ YT_CHANNEL_TTL_MS = setup[3]
                          /\ scenario = setup[4]
  /\ oauthConfigured = TRUE
  /\ ytEnabled = TRUE
  /\ sseClients \in {{}, {1}}
  /\ lastSeenMessageId = 0
  /\ activeLiveChatId = 1
  /\ nextPageToken = NoToken
  /\ activeBroadcast = 1
  /\ lastStatus = Status("info", "fetching comments", "", 0)
  /\ authedChannel = 1
  /\ authedChannelAt = 0
  /\ pollTimeout = "fired"
  /\ timerLeft = 0
  /\ timers = 0
  /\ timerSession = NoTokens
  /\ nextPollAt = "set"
  /\ lastPollMsEffective = Max(MinDelayMs, YT_POLL_MS)
  /\ backoffUntil = NoTime
  /\ backoffMs = 0
  /\ cycles = <<[IdleCycle EXCEPT !.pc = "messages", !.liveChatId = 1,
                                  !.oauthTokens = CHOOSE t \in NewTokens : TRUE]>>
  /\ emitted = <<Status("info", "got live chat id", "", 0),
                 Status("info", "fetching comments", "", 0)>>
  /\ called = "liveChatMessages.list"
  /\ lastResult = NoResult
  /\ quotaRun = 0
  /\ quotaRunReset = 0
  /\ tornDown = FALSE
  /\ chatEndedReset = FALSE
  /\ fetched = NoResponse
  /\ passed = NoFetch
  /\ prevFetch = NoPrevFetch
  /\ ended = NoEnded
  /\ identityFailed = FALSE
  /\ lastPollAt = "null"
  /\ reply = NoReply
  /\ broken = {}
  /\ delivered = << >>
  /\ probe = NoProbe
NextItems ==
  \E c \in DOMAIN cycles : \E resp \in Responses(cycles[c].liveChatId, cycles[c].pageToken) : MessagesOk(c, resp)
SpecItems == InitItems /\ [][NextItems]_vars

\* classifySpecialEvent on its own
\* the classification of the probed error, as pollLoop's catch block takes it
ClassifyError ==
  /\ Len(probe.results) < MaxProbes
  /\ Apply([Begin EXCEPT !.probe.results = Append(@, classifyError(probe.item))])

InitErrors ==
  /\ Fresh /\ monitor = "none"
  /\ probe \in {[item |-> e, results |-> << >>] : e \in ProbeErrors}
NextErrors == ClassifyError
SpecErrors == InitErrors /\ [][NextErrors]_vars

InitClassify ==
  /\ Fresh /\ monitor = "items"
  /\ probe \in {[item |-> item, results |-> << >>] : item \in ProbeItems}
NextClassify == Classify
SpecClassify == InitClassify /\ [][NextClassify]_vars

\* The fanout on its own, with up to MaxSinks subscribers: the handlers that
\* broadcast without a poll cycle, and subscribers whose connection dies.
SinkIds == 1..MaxSinks
InitFanout == Start /\ monitor = "fanout"
NextFanout ==
  \/ \E res \in SinkIds, session \in {NoTokens} \cup NewTokens : EventsConnect(res, session)
  \/ \E res \in SinkIds : EventsClose(res)
  \/ \E res \in SinkIds : SinkBreaks(res)
  \/ \E evt \in ProbeEvents : Broadcast(evt)
  \/ \E tokens \in NewTokens : AuthCallback(tokens)
  \/ AuthLogout
  \/ \E enabled \in BOOLEAN : SetEnabled(enabled)
  \/ \E session \in {NoTokens} \cup NewTokens : StateQuery(session)
  \/ EnabledQuery
SpecFanout == InitFanout /\ [][NextFanout]_vars

\* ------------------------------------------------------------- properties
SwitchedOff == Status("warn", "comment polling switched off", "", 0)
PollingOff == Status("warn", "polling off", "", 0)
LastEmitted == emitted[Len(emitted)]
Completed == {"success", "quota", "chatEnded", "generic"}

\* C1, as stated: at most one poll cycle is in flight at any time, in every
\* interleaving of wakes, connects, logout, callback and enable/disable.
C1_OneCycleInFlight == Len(cycles) <= 1

\* C2, as stated: after a logout or a disable, and until the next enable,
\* connect or callback, no wake is pending and the chat id, the continuation
\* token and the last delivered id are empty, also when a cycle was in flight.
C2_TornDownStaysQuiet ==
  tornDown => /\ pollTimeout # "pending"
              /\ activeLiveChatId = 0
              /\ nextPageToken = NoToken
              /\ lastSeenMessageId = 0

\* C3, as stated: every remote call of a poll cycle starts in a state where
\* the manual switch ytEnabled is true.
C3_CallsOnlyWhileEnabled == called # "none" => ytEnabled

\* C4: right after a disable request is handled, from any state, no wake is
\* scheduled (pollTimeout and nextPollAt empty), the cursor is empty (token,
\* last delivered id, chat id and broadcast null, backoff zero), and the
\* notice of the disable was broadcast and is the last known status.
C4_DisableClearsEngine ==
  [][SetEnabled(FALSE) =>
       /\ ~ytEnabled'
       /\ pollTimeout' = "null" /\ nextPollAt' = "null"
       /\ nextPageToken' = NoToken /\ lastSeenMessageId' = 0
       /\ activeLiveChatId' = 0 /\ activeBroadcast' = 0
       /\ backoffMs' = 0 /\ backoffUntil' = NoTime
       /\ emitted' = <<SwitchedOff, PollingOff>>
       /\ lastStatus' = PollingOff]_vars

\* a disable was just handled while a cycle was waiting for its page
C4_Witness ==
  /\ ~ytEnabled
  /\ emitted = <<SwitchedOff, PollingOff>>
  /\ Len(cycles) = 1 /\ cycles[1].pc = "messages"
  /\ pollTimeout = "null" /\ activeLiveChatId = 0

\* C5, as stated: an explicit enable from the disabled state schedules a wake.
C5_EnableArmsWake ==
  [][(~ytEnabled /\ SetEnabled(TRUE)) => pollTimeout' = "pending"]_vars

\* max(1200 ms, YT_POLL_MS, the API's interval when present and positive)
SuccessDelay(apiMs) ==
  Max(Max(MinDelayMs, YT_POLL_MS), IF apiMs > 0 THEN apiMs ELSE 0)

\* C6: after every successful poll cycle the delay of the next wake is
\* max(1200 ms, YT_POLL_MS, API-suggested interval when present and positive).
C6_SuccessDelay ==
  lastResult.outcome = "success" =>
    /\ pollTimeout = "pending"
    /\ timerLeft = SuccessDelay(lastResult.apiMs)
    /\ lastPollMsEffective = SuccessDelay(lastResult.apiMs)
    /\ timerLeft >= lastResult.apiMs /\ timerLeft >= MinDelayMs

\* a page fetch just succeeded with an API interval above the configured one
C6_Witness ==
  /\ lastResult = Result("success", 20000)
  /\ YT_POLL_MS = 1000
  /\ called = "none" /\ pollTimeout = "pending" /\ timerLeft = 20000

RECURSIVE Pow2(_)
Pow2(n) == IF n = 0 THEN 1 ELSE 2 * Pow2(n - 1)

\* min(base * 2^(k-1), YT_BACKOFF_MAX_MS) with base = min(60000, YT_BACKOFF_MAX_MS)
BackoffAfter(k) ==
  Min(Min(BackoffBaseMs, YT_BACKOFF_MAX_MS) * Pow2(k - 1), YT_BACKOFF_MAX_MS)

\* C7, as stated: after k >= 1 quota cycles with no successful cycle in
\* between, the backoff duration and the scheduled delay are
\* min(base * 2^(k-1), YT_BACKOFF_MAX_MS); a success resets the backoff.
C7_BackoffSinceSuccess ==
  /\ lastResult.outcome = "quota" =>
       /\ backoffMs = BackoffAfter(quotaRun)
       /\ timerLeft = BackoffAfter(quotaRun)
  /\ lastResult.outcome = "success" => backoffMs = 0

\* C7, amended: after k >= 1 quota cycles with no successful cycle and no
\* enable/disable request, logout or authorization callback in between, the
\* backoff duration is min(base * 2^(k-1), YT_BACKOFF_MAX_MS) and the
\* scheduled delay is that duration, but at least 1200 ms; a success resets
\* the backoff to zero.
C7_BackoffSinceReset ==
  /\ lastResult.outcome = "quota" =>
       /\ quotaRunReset >= 1
       /\ backoffMs = BackoffAfter(quotaRunReset)
       /\ backoffUntil = backoffMs
       /\ pollTimeout = "pending"
       /\ timerLeft = Max(MinDelayMs, BackoffAfter(quotaRunReset))
  /\ lastResult.outcome = "success" =>
       backoffMs = 0 /\ backoffUntil = NoTime /\ quotaRunReset = 0
  /\ quotaRunReset = 0 => backoffMs = 0

\* the second quota error in a row just doubled the backoff
C7_Witness ==
  /\ lastResult.outcome = "quota"
  /\ quotaRunReset = 2 /\ quotaRun = 2
  /\ backoffMs = 120000 /\ timerLeft = 120000

\* a wake that fires with the engine enabled and the backoff deadline ahead
WakeInBackoff == WakeFires /\ ytEnabled /\ backoffUntil > 0
\* a wake that fires with the engine enabled and no backoff deadline ahead
WakeAfterBackoff == WakeFires /\ ytEnabled /\ ~(backoffUntil > 0)
\* the step entered pollLiveChat: a cycle is suspended on its first call or
\* returned at once
CycleStarted ==
  \/ Len(cycles') = Len(cycles) + 1 /\ called' # "none"
  \/ lastResult'.outcome = "success"

C9_NextCycleResolves ==
  /\ lastResult.outcome = "chatEnded" =>
       /\ activeLiveChatId = 0 /\ activeBroadcast = 0
       /\ nextPageToken = NoToken /\ lastSeenMessageId = 0
  /\ \A c \in DOMAIN cycles : cycles[c].pc = "messages" => ~cycles[c].firstAfterReset

\* C10: every completed poll cycle, whatever its outcome, ends with a wake
\* armed and a status notice broadcast; no error outcome leaves the scheduler
\* stopped.
C10_CycleEndsArmed ==
  lastResult.outcome \in Completed =>
    /\ pollTimeout = "pending" /\ nextPollAt = "set"
    /\ timerLeft >= MinDelayMs
    /\ emitted # << >>
    /\ LastEmitted.kind = "status" /\ LastEmitted.message = "next poll"
    /\ lastStatus = LastEmitted

\* a cycle just ended with an unclassified error while the engine is enabled
C10_Witness ==
  /\ lastResult.outcome = "generic"
  /\ ytEnabled
  /\ pollTimeout = "pending"
  /\ LastEmitted.reason = "retry"

\* ------------------------------------------------------------------ cursor
\* a session reset: enable or disable, log-out, authorization callback, or a
\* cycle that ended on the chat-closed error
ResetStep ==
  \/ \E enabled \in BOOLEAN : SetEnabled(enabled)
  \/ AuthLogout
  \/ \E tokens \in NewTokens : AuthCallback(tokens)
  \/ lastResult'.outcome = "chatEnded"

\* C11, as stated: of two consecutive page fetches with no session reset
\* between them, the second passes the next-page token that the response of
\* the first returned.
C11_PassesReturnedToken ==
  passed.started /\ prevFetch.valid => passed.pageToken = prevFetch.returned

\* C11, amended: a page fetch started after the completion of a fetch, with
\* no session reset between them, passes the next-page token that response
\* returned or, when the response carried none, the token that was stored
\* when it arrived.
C11_PassesStoredToken ==
  passed.started /\ prevFetch.valid =>
    passed.pageToken = IF prevFetch.returned # NoToken THEN prevFetch.returned
                       ELSE prevFetch.kept

\* a fetch follows a response that carried no token, and passes the older one
C11_Witness ==
  /\ passed.started /\ prevFetch.valid
  /\ prevFetch.returned = NoToken
  /\ passed.pageToken # NoToken
  /\ passed.pageToken = prevFetch.kept

\* one token is earlier than another when the same chat handed it out before
Earlier(a, b) == a[1] = b[1] /\ a[2] < b[2]

\* C12, as stated: a non-empty continuation token becomes empty only through
\* a session reset, and a fetch completion never sets it back to empty or to
\* an earlier value; a response without a next-page token leaves it unchanged.
C12_NeverRolledBack ==
  [][nextPageToken # NoToken =>
       /\ nextPageToken' = NoToken => ResetStep
       /\ fetched' # NoResponse =>
            /\ nextPageToken' # NoToken
            /\ ~Earlier(nextPageToken', nextPageToken)
            /\ fetched'.nextPageToken = NoToken => nextPageToken' = nextPageToken]_vars

\* C13, as stated: the chat-session id, once set, is changed by nothing but
\* a session reset, and every page fetch is issued with that id, never with
\* an empty one.
C13_ChatIdKept ==
  [][/\ activeLiveChatId # 0 /\ activeLiveChatId' # activeLiveChatId =>
          ResetStep /\ activeLiveChatId' = 0
     /\ passed'.started =>
          passed'.liveChatId # 0 /\ passed'.liveChatId = activeLiveChatId']_vars

\* C14, as stated: whenever the chat-session id is empty, the continuation
\* token and the last-delivered id are empty too, also when a reset is
\* interleaved with a cycle whose page fetch is outstanding.
C14_EmptyIdEmptyCursor ==
  activeLiveChatId = 0 => nextPageToken = NoToken /\ lastSeenMessageId = 0

\* ------------------------------------------------------------------- items
\* the chat events broadcast by the last step, in the order of their broadcast
ChatEvents == SelectSeq(emitted, LAMBDA evt : evt.kind = "chat")

\* C15, as stated: the chat events of a fetched page are broadcast in
\* chronological order of the items, whether the page lists its items
\* newest-first or oldest-first.
C15_ChronologicalOrder ==
  \A i, j \in 1..Len(ChatEvents) :
    i < j => ChatEvents[i].publishedAt <= ChatEvents[j].publishedAt

\* the toast events broadcast by the last step
ToastEvents == SelectSeq(emitted, LAMBDA evt : evt.kind = "toast")
HasText(item) == Trim(item.displayMessage) # << >>
HasDetail(item) == item.superChatDetails.present \/ item.newSponsorDetails.present
HasChatEvent(item) == \E k \in 1..Len(ChatEvents) : ChatEvents[k].id = item.id

\* C20: an item of a fetched page has a chat event if and only if its trimmed
\* text is not empty, whether or not it has a toast as well; an item with a
\* detail field and text has both, and a page whose items have neither text
\* nor detail fields has no chat event and no toast.
C20_ChatEventIffText ==
  LET items == fetched.items
      idx == DOMAIN items
  IN /\ \A i \in idx : HasChatEvent(items[i]) <=> HasText(items[i])
     /\ Len(ChatEvents) = Cardinality({i \in idx : HasText(items[i])})
     /\ Len(ToastEvents) =
          Cardinality({i \in idx : classifySpecialEvent(items[i]).type # "none"})
     /\ \A i \in idx : HasDetail(items[i]) => ToastEvents # << >>
     /\ (\A i \in idx : ~HasText(items[i]) /\ ~HasDetail(items[i])) =>
          ChatEvents = << >> /\ ToastEvents = << >>

\* a page came with an item that has a detail field and text, and with a
\* blank one: a chat event and a toast for the first, nothing for the second
C20_Witness ==
  /\ \E i, j \in DOMAIN fetched.items :
       /\ HasDetail(fetched.items[i]) /\ HasText(fetched.items[i])
       /\ HasChatEvent(fetched.items[i])
       /\ ~HasText(fetched.items[j]) /\ ~HasDetail(fetched.items[j])
       /\ ~HasChatEvent(fetched.items[j])
  /\ Len(ChatEvents) = 1 /\ Len(ToastEvents) = 1

\* -------------------------------------------------------------- classifier
\* the trimmed display text matches one of the gift patterns
GiftLike(item) == \E p \in GiftPatterns : Test(p, Trim(item.displayMessage))

\* C19: every classification of an item is the monetary event with its amount
\* and tier when superChatDetails is present, whatever else the item holds;
\* else the recurring-support event with its level name when
\* newSponsorDetails is present; else the gift event with the trimmed text
\* when that text matches a gift pattern; else none.  Classifying the item
\* again gives the same result.
C19_ClassifiedByPriority ==
  LET item == probe.item
  IN \A k \in 1..Len(probe.results) :
       LET r == probe.results[k]
       IN /\ r = probe.results[1]
          /\ r.type \in {"superchat", "membership", "gift", "none"}
          /\ r.type = "superchat" <=> item.superChatDetails.present
          /\ r.type = "superchat" =>
               /\ r.amount = item.superChatDetails.amountDisplayString
               /\ r.tier = item.superChatDetails.tier
          /\ r.type = "membership" <=>
               ~item.superChatDetails.present /\ item.newSponsorDetails.present
          /\ r.type = "membership" =>
               r.level = item.newSponsorDetails.membershipLevelName
          /\ r.type = "gift" <=>
               /\ ~item.superChatDetails.present /\ ~item.newSponsorDetails.present
               /\ GiftLike(item)
          /\ r.type = "gift" => r.message = Trim(item.displayMessage)

\* an item with both detail fields and a gift-like text, classified twice
C19_Witness ==
  /\ probe.item.superChatDetails.present /\ probe.item.newSponsorDetails.present
  /\ GiftLike(probe.item)
  /\ Len(probe.results) = 2
  /\ probe.results[1].type = "superchat" /\ probe.results[2] = probe.results[1]

\* ------------------------------------------------------------------ fanout
\* the subscribers a fanout of the last step went through without reaching
Failed(w) == w.subs \ w.to

\* C16: a broadcast does not raise, and every subscriber of the set other
\* than those whose write fails gets the payload.
C16_FanoutIsolated ==
  \A k \in 1..Len(delivered) :
    /\ ~delivered[k].raised
    /\ delivered[k].to = delivered[k].subs \ broken

\* a broadcast to three subscribers, the write to the first of which fails
C16_Witness ==
  \E k \in 1..Len(delivered) :
    /\ delivered[k].subs = SinkIds
    /\ 1 \in broken
    /\ delivered[k].to = SinkIds \ {1}
    /\ ~delivered[k].raised

\* C17, as stated: a subscriber whose write fails during a broadcast is not
\* in the subscriber set after that broadcast.
C17_FailedSubscriberRemoved ==
  \A k \in 1..Len(delivered) : Failed(delivered[k]) \cap sseClients = {}

\* the status events broadcast by a step
StatusEvents(evts) == SelectSeq(evts, LAMBDA evt : evt.kind = "status")

\* C18: a step changes the last status only by broadcasting: after it, the
\* last status is the last status event the step broadcast, and the one
\* before when it broadcast none, be it events of other kinds, a subscribe
\* with its ping, an unsubscribe or a snapshot query; subscribers or not.
C18_LastStatusByBroadcast ==
  [][LET st == StatusEvents(emitted')
     IN lastStatus' = IF st # << >> THEN st[Len(st)] ELSE lastStatus]_vars

\* without subscribers, a chat event was broadcast after a status event,
\* which is still the last status
C18_Witness ==
  /\ sseClients = {}
  /\ emitted = <<ChatEvent(PlainItem(1, <<"hi">>))>>
  /\ lastStatus = Status("info", "fetch done", "", 1)

\* ---------------------------------------------------- cursor and chat id
\* C24, as stated: the continuation token a page fetch sends with chat id X
\* is empty or was returned by a fetch for the same X, also when a reset is
\* interleaved with a page fetch that is outstanding.
C24_TokenOfSameChat ==
  passed.started =>
    passed.pageToken = NoToken \/ passed.pageToken[1] = passed.liveChatId

\* --------------------------------------------------------------- scheduler
NoActiveLive == Status("warn", "no active live found", "", 0)

\* C26: when the resolution finds no active broadcast, the cycle broadcasts
\* a warning, issues no page fetch and ends as a success: the backoff is
\* reset, the wake is armed at the success delay, and the chat-session id
\* stays empty.
C26_NoLiveEndsAsSuccess ==
  [][\A c \in CycleIds, b \in BroadcastResults :
       BroadcastsOk(c, b) /\ b.liveChatId = 0 =>
         /\ emitted' # << >> /\ emitted'[1] = NoActiveLive
         /\ called' = "none"
         /\ Len(cycles') = Len(cycles) - 1
         /\ lastResult' = Result("success", 0)
         /\ backoffMs' = 0 /\ backoffUntil' = NoTime
         /\ pollTimeout' = "pending" /\ timerLeft' = SuccessDelay(0)
         /\ activeLiveChatId' = 0]_vars

\* a cycle just ended on finding no active broadcast
C26_Witness ==
  /\ emitted # << >> /\ emitted[1] = NoActiveLive
  /\ lastResult = Result("success", 0)
  /\ activeLiveChatId = 0 /\ called = "none"
  /\ pollTimeout = "pending" /\ timerLeft = SuccessDelay(0)

\* the scheduler state of the enable/disable switch
Scheduler(s) ==
  [ytEnabled |-> s.ytEnabled, pollTimeout |-> s.pollTimeout, timerLeft |-> s.timerLeft,
   activeLiveChatId |-> s.activeLiveChatId, nextPageToken |-> s.nextPageToken,
   lastSeenMessageId |-> s.lastSeenMessageId, backoffMs |-> s.backoffMs,
   backoffUntil |-> s.backoffUntil]

\* C22: right after an enable, a second enable leaves the scheduler state as
\* it is, and so does a second disable right after a disable.
C22_SwitchIdempotent ==
  [][\A enabled \in BOOLEAN :
       SetEnabled(enabled) =>
         Scheduler(setEnabled(Begin, enabled))' = Scheduler(Cur)']_vars

\* an enable was just handled while a wake was armed and a chat resolved
\* before it
C22_Witness ==
  /\ ytEnabled /\ pollTimeout = "pending"
  /\ Len(emitted) = 1 /\ emitted[1].message = "comment polling switched on, detecting again"
  /\ activeLiveChatId = 0 /\ cycles # << >>

\* ---------------------------------------------------------------- identity
\* a wake fires and its callback calls pollLiveChat
PollStarts == WakeFires /\ ytEnabled /\ ~(backoffUntil > 0)
\* no identity is cached, or the cached one is older than the time-to-live
NoFreshIdentity ==
  authedChannel = 0 \/ authedChannelAt = NoTime \/ authedChannelAt > YT_CHANNEL_TTL_MS

\* C27, as stated: a poll cycle calls the channel-identity resolution if and
\* only if no identity is cached, the cached identity is older than the
\* time-to-live, or the previous resolution attempt failed.
C27_IdentityCallIffNeeded ==
  [][PollStarts =>
       (called' = "channels.list" <=> NoFreshIdentity \/ identityFailed)]_vars

\* C27, amended: a poll cycle that has credentials calls the channel-identity
\* resolution if and only if no identity is cached or the cached identity is
\* older than the time-to-live; a cycle without credentials does not call it.
C27_IdentityCallIffStale ==
  [][PollStarts =>
       (called' = "channels.list" <=>
          oauthConfigured /\ timerSession.present /\ NoFreshIdentity)]_vars

\* a cycle with credentials just started on a cached identity within its
\* time-to-live, with the page fetch
C27_Witness ==
  /\ authedChannel = 1 /\ authedChannelAt = 0
  /\ called = "liveChatMessages.list"
  /\ emitted = <<Status("info", "fetching comments", "", 0)>>

\* ------------------------------------------------------ calls of a cycle
Count(trace, x) == Len(SelectSeq(trace, LAMBDA e : e = x))
FirstCallFailed(trace) == Count(trace, "channels.list failed") > 0
RefreshCalls(trace) == Count(trace, "refreshAccessToken")
RetryCalls(trace) == Max(0, Count(trace, "channels.list") - 1)

\* C28, as stated: a cycle makes at most one credential refresh and at most
\* one retry of the identity call, and makes them exactly when its first
\* identity call failed and its credential holds a refresh token.
C28_RefreshAndRetryOnce ==
  ended.over =>
    LET wanted == FirstCallFailed(ended.trace) /\ ended.startTokens.refresh_token
    IN /\ RefreshCalls(ended.trace) <= 1 /\ RetryCalls(ended.trace) <= 1
       /\ RefreshCalls(ended.trace) = 1 <=> wanted
       /\ RetryCalls(ended.trace) = 1 <=> wanted

\* C28, amended: at most one refresh and one retry; the refresh exactly when
\* the first identity call failed and the credential holds a refresh token,
\* the retry exactly when that refresh succeeded and returned credentials.
C28_RetryAfterRefreshed ==
  ended.over =>
    LET wanted == FirstCallFailed(ended.trace) /\ ended.startTokens.refresh_token
    IN /\ RefreshCalls(ended.trace) <= 1 /\ RetryCalls(ended.trace) <= 1
       /\ RefreshCalls(ended.trace) = 1 <=> wanted
       /\ RetryCalls(ended.trace) = 1 <=> Count(ended.trace, "refreshed") = 1
       /\ Count(ended.trace, "refreshed") = 1 => wanted
       /\ ~ended.startTokens.refresh_token =>
            RefreshCalls(ended.trace) = 0 /\ RetryCalls(ended.trace) = 0

\* a cycle just left its identity phase after a failed call, a refresh and
\* the retry
C28_Witness ==
  /\ ended.over
  /\ ended.trace = <<"channels.list", "channels.list failed", "refreshAccessToken",
                     "refreshed", "channels.list">>

\* the calls after the identity phase
LaterCalls == {"liveBroadcasts.list", "liveChatMessages.list"}

\* C30: when the refresh itself fails, the failure is broadcast as a status
\* notice, the identity phase of the cycle is over with no retry and no
\* second refresh, the credential is as it was when the cycle started, the
\* cycle goes on, and whenever a cycle ends a wake is armed.
C30_RefreshFailureContained ==
  [][/\ \A c \in CycleIds :
          RefreshFail(c) =>
            /\ emitted' # << >>
            /\ emitted'[1] = Status("warn", "token refresh failed", "", 0)
            /\ ended'.over
            /\ ended'.trace = <<"channels.list", "channels.list failed",
                                 "refreshAccessToken", "refresh failed">>
            /\ ended'.oauthTokens = ended'.startTokens
            /\ called' \in LaterCalls
            /\ Len(cycles') = Len(cycles)
     /\ \A c \in DOMAIN cycles' :
          cycles'[c].pc \in {"broadcasts", "messages"} =>
            \A k \in DOMAIN cycles'[c].trace : cycles'[c].trace[k] \in LaterCalls
     /\ lastResult'.outcome \in Completed => pollTimeout' = "pending"]_vars

\* a refresh just failed and the cycle went on to the live-session resolution
C30_Witness ==
  /\ ended.over
  /\ ended.trace[Len(ended.trace)] = "refresh failed"
  /\ ended.oauthTokens.refresh_token
  /\ called = "liveBroadcasts.list"

\* the trace of a cycle after its identity phase
LaterTraces == {<< >>, <<"liveBroadcasts.list">>, <<"liveChatMessages.list">>,
                <<"liveBroadcasts.list", "liveChatMessages.list">>}
FetchDoneAt(k) == emitted[k].kind = "status" /\ emitted[k].message = "fetch done"

\* C25: a cycle issues its calls in the order identity resolution,
\* live-session resolution, page fetch, the live-session resolution only
\* while the chat-session id is absent and the page fetch at most once; the
\* completion notice with the item count comes after the item events of the
\* page.
C25_CallsInOrder ==
  /\ \A c \in DOMAIN cycles :
       /\ cycles[c].pc = "channels" => cycles[c].trace = <<"channels.list">>
       /\ cycles[c].pc \in {"refresh", "retry"} =>
            \A k \in DOMAIN cycles[c].trace : cycles[c].trace[k] \notin LaterCalls
       /\ cycles[c].pc = "broadcasts" => cycles[c].trace = <<"liveBroadcasts.list">>
       /\ cycles[c].pc = "messages" =>
            /\ cycles[c].trace \in LaterTraces
            /\ cycles[c].trace[Len(cycles[c].trace)] = "liveChatMessages.list"
  /\ ended.over => \A k \in DOMAIN ended.trace : ended.trace[k] \notin LaterCalls
  /\ called = "liveBroadcasts.list" => activeLiveChatId = 0
  /\ called = "liveChatMessages.list" => activeLiveChatId # 0
  /\ \A k \in DOMAIN emitted :
       emitted[k].kind \in {"chat", "toast"} =>
         /\ \E j \in DOMAIN emitted :
              j > k /\ FetchDoneAt(j) /\ emitted[j].n >= Len(ChatEvents)
         /\ \A j \in DOMAIN emitted : FetchDoneAt(j) => j > k

\* a cycle that resolved the live session and then fetched its page just
\* ended, the completion notice following the chat event
C25_Witness ==
  /\ lastResult.outcome = "success"
  /\ Len(emitted) >= 2
  /\ emitted[1].kind = "chat"
  /\ FetchDoneAt(2) /\ emitted[2].n = 1



\* a refresh that returned credentials, answered to cycle c
Refreshed(c, r) == RefreshOk(c, r) /\ r.credentials
\* the credential of cycle c when that answer has been handled
AfterRefresh(c, r) == refreshOk(Begin, c, r).cycles[c].oauthTokens
\* the credentials the outstanding cycles hold
Held == {cycles[i].oauthTokens : i \in DOMAIN cycles}
\* a request handler arms the wake with the session of its request
FromRequest ==
  \/ \E enabled \in BOOLEAN : SetEnabled(enabled)
  \/ \E tokens \in NewTokens : AuthCallback(tokens)

\* C21: across a credential refresh of a poll cycle the expiry instant of
\* the credential never decreases, whatever the refresh call returns
C21_ExpiryNeverDecreases ==
  [][\A c \in CycleIds, r \in RefreshResults :
       Refreshed(c, r) =>
         AfterRefresh(c, r).expiry_date >= cycles[c].oauthTokens.expiry_date]_vars

\* C29: a refresh that returned credentials writes the returned access
\* token and expiry into the credential of the cycle, keeps the stored value
\* of a field the provider omitted and leaves the refresh token as it was;
\* the cycle goes on with that credential, and a wake armed by a cycle
\* carries the credential of that cycle to the later cycles
C29_RefreshWritesInPlace ==
  [][/\ \A c \in CycleIds, r \in RefreshResults :
          Refreshed(c, r) =>
            LET old == cycles[c].oauthTokens
                new == AfterRefresh(c, r)
            IN /\ new.present
               /\ new.access_token =
                    IF r.access_token = 0 THEN old.access_token ELSE r.access_token
               /\ new.expiry_date =
                    IF r.expiry_date = 0 THEN old.expiry_date ELSE r.expiry_date
               /\ new.refresh_token = old.refresh_token
               /\ \E i \in DOMAIN cycles' :
                    cycles'[i].pc = "retry" /\ cycles'[i].oauthTokens = new
     /\ (timerSession' # timerSession /\ timerSession'.present /\ ~FromRequest)
          => timerSession' \in Held]_vars

\* a wake is armed with a credential whose token was refreshed but whose
\* expiry the provider omitted
C29_Witness ==
  /\ pollTimeout = "pending"
  /\ timerSession.present /\ timerSession.refresh_token
  /\ timerSession.access_token = 2 /\ timerSession.expiry_date = FirstExpiry


\* the engine state named by the queries' contract
Engine ==
  <<ytEnabled, pollTimeout, timerLeft, timerSession, nextPollAt, lastPollMsEffective,
    cycles, nextPageToken, lastSeenMessageId, activeLiveChatId, activeBroadcast,
    backoffUntil, backoffMs, lastStatus, sseClients, authedChannel, authedChannelAt,
    lastPollAt>>

\* C23: the snapshot query and the switch query are read-only: they leave
\* the enabled flag, the scheduled wake, the session state, the cursor, the
\* backoff, the last status and the subscriber set unchanged, and every
\* value they report equals the current engine state
C23_QueriesReadOnly ==
  [][/\ \A session \in {NoTokens} \cup NewTokens :
          StateQuery(session) =>
            /\ UNCHANGED Engine
            /\ reply'.query = "state"
            /\ reply'.body.ytEnabled = ytEnabled
            /\ reply'.body.polling = (pollTimeout \in {"pending", "fired"})
            /\ reply'.body.nextPollAt = nextPollAt
            /\ reply'.body.pollMsEffective = lastPollMsEffective
            /\ reply'.body.backoffUntil = backoffUntil
            /\ reply'.body.sseClients = Cardinality(sseClients)
            /\ reply'.body.authedChannel = authedChannel
            /\ reply'.body.authedChannelAt = authedChannelAt
            /\ reply'.body.activeBroadcast = activeBroadcast
            /\ reply'.body.activeLiveChatId = activeLiveChatId
            /\ reply'.body.lastSeenMessageId = lastSeenMessageId
            /\ reply'.body.lastPollAt = lastPollAt
            /\ reply'.body.lastStatus = lastStatus
            /\ reply'.body.oauthConfigured = oauthConfigured
            /\ reply'.body.authed = session.present
            /\ reply'.body.hasRefreshToken = session.refresh_token
     /\ EnabledQuery =>
          /\ UNCHANGED Engine
          /\ reply'.query = "enabled"
          /\ reply'.body.ytEnabled = ytEnabled]_vars

\* a snapshot taken while a cycle is outstanding and the handle of the fired
\* wake is still stored, with a subscriber connected and a chat resolved
C23_Witness ==
  /\ reply.query = "state"
  /\ reply.body.polling /\ pollTimeout = "fired"
  /\ reply.body.sseClients = 1
  /\ reply.body.activeLiveChatId # 0
  /\ reply.body.lastPollAt = "set"


\* the lower-cased message and reason of an error
MessageOf(e) == [k \in 1..Len(e.message) |-> toLowerCase(e.message[k])]
QuotaKeys(e) ==
  \/ \E k \in 1..Len(e.message) : MessageOf(e)[k] \in {"exceeded your quota", "quotaexceeded"}
  \/ ReasonOf(e) = "quotaexceeded"
ChatEndedKeys(e) ==
  \/ \E k \in 1..Len(e.message) : MessageOf(e)[k] = "live chat is no longer live"
  \/ ReasonOf(e) \in {"livechatnotfound", "livechatclosed"}

\* C31: an error is classified quota-exhaustion iff its lower-cased message
\* contains 'exceeded your quota' or 'quotaexceeded' or its lower-cased
\* reason is 'quotaexceeded', chat-no-longer-live iff its lower-cased message
\* contains 'live chat is no longer live' or its lower-cased reason is
\* 'livechatnotfound' or 'livechatclosed', and generic otherwise; errors with
\* equal message and reason are classified alike whatever their type or
\* status code
C31_ClassifiedByMessageAndReason ==
  probe.item \in ProbeErrors =>
    \A k \in 1..Len(probe.results) :
      LET r == probe.results[k]
      IN /\ r.quota <=> QuotaKeys(probe.item)
         /\ r.chatClosed <=> ChatEndedKeys(probe.item)
         /\ \A e \in ProbeErrors :
              MessageOf(e) = MessageOf(probe.item) /\ ReasonOf(e) = ReasonOf(probe.item)
                => classifyError(e) = r

\* an error with status 403 and no key in its message or reason, classified
\* as generic
C31_Witness ==
  /\ probe.item \in ProbeErrors
  /\ probe.item.code = 403 /\ probe.item.message = <<"quota">>
  /\ probe.item.errors = "backendError"
  /\ Len(probe.results) = 1
  /\ ~probe.results[1].quota /\ ~probe.results[1].chatClosed


\* the last step handled the failure of a cycle
CycleFailed == lastResult.outcome \in {"quota", "chatEnded", "generic"}

\* C32: the status notice that reports a failed poll cycle has severity
\* error when the failure is classified quota-exhaustion, and severity
\* warning when it is classified live-session invalidation or is a generic
\* failure
C32_SeverityByClass ==
  CycleFailed =>
    /\ emitted # << >>
    /\ emitted[1].kind = "status" /\ emitted[1].message = "poll error"
    /\ emitted[1].level = IF lastResult.outcome = "quota" THEN "error" ELSE "warn"


\* C33: after a chat-no-longer-live error and after a generic error the next
\* wake is armed with the same fixed delay max(15000 ms, YT_POLL_MS), which
\* is never shorter than the delay after a successful cycle without an
\* API-suggested interval and never shorter than 1200 ms; neither path
\* changes the backoff duration
C33_FixedDelayAfterFailure ==
  [][lastResult'.outcome \in {"chatEnded", "generic"} =>
       /\ pollTimeout' = "pending"
       /\ timerLeft' = Max(SlowDelayMs, YT_POLL_MS)
       /\ lastPollMsEffective' = timerLeft'
       /\ timerLeft' >= SuccessDelay(0)
       /\ timerLeft' >= MinDelayMs
       /\ backoffMs' = backoffMs]_vars

\* a generic failure while a backoff duration is kept, with a configured
\* interval above 15000 ms
C33_Witness ==
  /\ lastResult.outcome = "generic"
  /\ backoffMs > 0
  /\ YT_POLL_MS > SlowDelayMs /\ timerLeft = YT_POLL_MS


\* C34: the role of a plain-message event is 'owner' when the owner flag of
\* its item is set, else 'mod' when the moderator flag is set, else 'member'
\* when the supporter flag is set, else the empty string, for every
\* combination of the three flags
C34_RoleByPriority ==
  \A i \in DOMAIN fetched.items :
    LET author == fetched.items[i].authorDetails
    IN \A k \in DOMAIN ChatEvents :
         ChatEvents[k].id = fetched.items[i].id =>
           /\ ChatEvents[k].role \in {"owner", "mod", "member", ""}
           /\ ChatEvents[k].role = "owner" <=> author.isChatOwner
           /\ ChatEvents[k].role = "mod" <=>
                ~author.isChatOwner /\ author.isChatModerator
           /\ ChatEvents[k].role = "member" <=>
                /\ ~author.isChatOwner /\ ~author.isChatModerator
                /\ author.isChatSponsor

\* the message of a moderator who is also a supporter came out as 'mod'
C34_Witness ==
  /\ Len(fetched.items) = 1 /\ Len(ChatEvents) = 1
  /\ fetched.items[1].authorDetails = Author(FALSE, TRUE, TRUE)
  /\ ChatEvents[1].role = "mod"


\* C35: at most one wake is pending at any time, and it is the one whose
\* handle the engine holds: arming cancels the wake armed before, and
\* ensurePolling arms nothing while a handle is held, under every sequence of
\* subscriber connects, authorization callbacks and cycle completions
C35_OneWakePending ==
  /\ timers \in {0, 1}
  /\ timers = 1 <=> pollTimeout = "pending"

\* a cycle completed and armed the wake while another cycle, started by a
\* wake armed in between, is still outstanding
C35_Witness ==
  /\ timers = 1 /\ pollTimeout = "pending"
  /\ lastResult.outcome = "success"
  /\ cycles # << >>


\* C36: every wake that is armed has a delay of at least 1200 ms, on every
\* path: the delay recorded at the arming, the time left of the pending wake
\* and the delay announced with the arming, also when the wake is re-armed
\* for a remaining backoff time below 1200 ms or the requested delay is zero
C36_DelayAtLeastMin ==
  /\ lastPollMsEffective = 0 \/ lastPollMsEffective >= MinDelayMs
  /\ pollTimeout = "pending" =>
       lastPollMsEffective >= MinDelayMs /\ timerLeft <= lastPollMsEffective
  /\ \A k \in DOMAIN emitted :
       emitted[k].kind = "status" /\ emitted[k].message = "next poll" =>
         emitted[k].n >= MinDelayMs /\ emitted[k].n = lastPollMsEffective

\* a wake fired with less than 1200 ms of backoff left and was re-armed for
\* 1200 ms
C36_Witness ==
  /\ lastResult.outcome = "backoffWait"
  /\ backoffUntil > 0 /\ backoffUntil < MinDelayMs
  /\ pollTimeout = "pending" /\ timerLeft = MinDelayMs


\* C37: in every reachable state the backoff duration lies between 0 and
\* YT_BACKOFF_MAX_MS, and the backoff deadline is set if and only if the
\* backoff duration is greater than zero, under every interleaving of quota
\* errors, successes, enable and disable, logout and authorization callback
C37_BackoffBounded ==
  /\ backoffMs >= 0 /\ backoffMs <= YT_BACKOFF_MAX_MS
  /\ backoffUntil # NoTime <=> backoffMs > 0

\* the backoff has been doubled up to the configured maximum and its
\* deadline, still set, has passed
C37_Witness ==
  /\ YT_BACKOFF_MAX_MS > BackoffBaseMs
  /\ backoffMs = YT_BACKOFF_MAX_MS
  /\ backoffUntil = 0


\* an error with a chat-no-longer-live key and a quota-exhaustion key
MatchesBoth(e) == QuotaKeys(e) /\ ChatEndedKeys(e)
\* the failure of a cycle with error e is handled
Fails(e) == \E c \in CycleIds : BroadcastsFail(c, e) \/ MessagesFail(c, e)

\* C38: an error that matches both the chat-no-longer-live keys and the
\* quota-exhaustion keys is handled as chat-no-longer-live: the session is
\* reset, the slowed fixed delay is scheduled, and the backoff duration and
\* deadline are left unchanged
C38_BothKeysHandledAsChatEnded ==
  [][\A e \in Errors :
       lastResult'.outcome # "none" /\ MatchesBoth(e) /\ Fails(e) =>
         /\ activeLiveChatId' = 0 /\ activeBroadcast' = 0
         /\ nextPageToken' = NoToken /\ lastSeenMessageId' = 0
         /\ pollTimeout' = "pending"
         /\ timerLeft' = Max(SlowDelayMs, YT_POLL_MS)
         /\ backoffMs' = backoffMs /\ backoffUntil' = backoffUntil]_vars

\* the failure with both keys was handled while a chat was resolved and no
\* backoff was set: the chat is forgotten and still no backoff is set
C38_Witness ==
  /\ emitted # << >> /\ emitted[1].message = "poll error"
  /\ emitted[1].error = ErrBoth.message /\ MatchesBoth(ErrBoth)
  /\ lastResult.outcome = "chatEnded"
  /\ activeLiveChatId = 0 /\ backoffMs = 0 /\ backoffUntil = NoTime


\* C39: a poll cycle that runs when OAuth is not configured or when the
\* session it was armed with holds no credential starts no remote call and
\* broadcasts nothing from pollLiveChat, and is taken by the scheduler as a
\* success: the backoff is reset to zero and the next wake is armed at the
\* normal delay
C39_NoCredentialNoCall ==
  [][PollStarts /\ (~oauthConfigured \/ ~timerSession.present) =>
       /\ called' = "none"
       /\ cycles' = cycles
       /\ emitted' = <<Status("info", "next poll", "env interval",
                              Max(MinDelayMs, YT_POLL_MS))>>
       /\ lastResult'.outcome = "success"
       /\ backoffMs' = 0 /\ backoffUntil' = NoTime
       /\ pollTimeout' = "pending"
       /\ timerLeft' = Max(MinDelayMs, YT_POLL_MS)
       /\ timerSession' = timerSession]_vars

\* with OAuth configured, the wake of a session without credential fired:
\* nothing but the arming of the next wake was broadcast
C39_Witness ==
  /\ oauthConfigured /\ ytEnabled
  /\ lastResult.outcome = "success" /\ called = "none"
  /\ Len(emitted) = 1 /\ emitted[1].message = "next poll"
  /\ pollTimeout = "pending" /\ ~timerSession.present


\* an enable, a disable, a logout or an authorization callback is handled
Resets ==
  \/ \E enabled \in BOOLEAN : SetEnabled(enabled)
  \/ AuthLogout
  \/ oauthConfigured /\ \E tokens \in NewTokens : AuthCallback(tokens)

\* C40: enable, disable, logout and the authorization callback each reset
\* the backoff duration to zero and clear the backoff deadline, so the first
\* quota error after any of them backs off for the base duration, and a wake
\* that fires with the engine enabled and the deadline cleared starts a poll
\* cycle
C40_RequestsClearBackoff ==
  [][/\ Resets => backoffMs' = 0 /\ backoffUntil' = NoTime
     /\ lastResult'.outcome = "quota" /\ quotaRunReset' = 1 =>
          /\ backoffMs' = Min(BackoffBaseMs, YT_BACKOFF_MAX_MS)
          /\ backoffUntil' = backoffMs'
     /\ WakeFires /\ ytEnabled /\ backoffUntil = NoTime =>
          lastResult'.outcome # "backoffWait" /\ CycleStarted]_vars

\* a quota error backed off for the base duration although it is the second
\* since the last successful cycle: a request cleared the backoff in between
C40_Witness ==
  /\ lastResult.outcome = "quota"
  /\ quotaRun = 2 /\ quotaRunReset = 1
  /\ backoffMs = Min(BackoffBaseMs, YT_BACKOFF_MAX_MS)

====
